---- MODULE Spec2Model ----
(***************************************************************************)
(* A model of the inatcog cog of dronefly: the compound taxon query        *)
(* converter, the taxon resolver behind the taxon commands, and the        *)
(* "last" command group that recovers the most recently mentioned          *)
(* observation or taxon from a channel's history.                          *)
(*                                                                         *)
(* Several specifications share the module, one per subsystem:             *)
(*   SpecConvert  CompoundQueryConverter.convert on a raw argument         *)
(*   SpecTaxon    the taxon / species commands and the resolver            *)
(*   Spec         a channel's history and the `last` command group         *)
(*   SpecFiltered the taxon commands and `last taxon` with by / from       *)
(*   SpecMany     the taxa-list commands related and map                   *)
(*   SpecAbbrev   a guild's project and place abbreviations                *)
(*   SpecUser     a Discord user's registration as an iNat user            *)
(*   SpecAutoobs  the auto-observation mode of a guild and its channels    *)
(*   SpecLoad     loading the cog: initialize and the schema migration     *)
(*   SpecMember   ContextMemberConverter.convert on an argument            *)
(*   SpecResolve  one resolution, its lookups in flight, and abandonment   *)
(*   SpecRace     the abbreviation commands interleaved at their awaits    *)
(* Each leaves the variables of the other subsystems at their idle values. *)
(***************************************************************************)
EXTENDS Integers, Sequences, FiniteSets, TLC

VARIABLES
    argument,   \* the raw text handed to CompoundQueryConverter.convert
    converted,  \* what convert gave back (or raised) for it
    command,    \* the taxon command being served ("taxon", "species", ...)
    query,      \* its CompoundQuery
    pc,         \* where the command is: "idle", "start", "search", "ancestor", "done"
    results,    \* the candidates the name search returned, in relevance order
    ancestor,   \* what the ancestor clause resolved to
    outcome,    \* what the resolver returned or raised
    reply,      \* what the command sent to the channel
    history,    \* the channel's messages, newest first
    lastCommand, \* the `last` subcommand served most recently, with its argument
    mention,    \* the last mention that command recovered from the history
    lastReply,  \* what that command sent to the channel
    manyCommand, \* the taxa-list command being served ("related", "map")
    taxa_list,  \* its comma-separated list of taxon queries
    taxa,       \* the taxa its segments have resolved to so far, in order
    failure,    \* the error that ended the resolution of the list, if any
    manyReply,  \* what the command sent to the channel
    projects,   \* the guild's project abbreviations: the number of each, 0 if none
    places,     \* the guild's place abbreviations, likewise
    abbrevCommand, \* the abbreviation command served most recently
    abbrevBefore, \* the two maps as that command found them
    abbrevSent, \* the messages that command sent, in order
    userConfig, \* a Discord user's config: inat_user_id, known_in, known_all
    userCommand, \* the user command served most recently
    userBefore, \* the config as that command found it
    userReply,  \* the messages that command sent, in order
    guildAutoobs, \* the guild's auto-observation mode
    channelAutoobs, \* each channel's mode: "True", "False", or "None" to inherit
    channelAsked, \* what each channel was last set to by its moderators, if anything
    autoobsCommand, \* the autoobs command served most recently
    autoobsSent, \* the messages that command sent, in order
    schema_version, \* the global config's schema version
    developer,  \* whether the bot is one of the developer's own
    loadPc,     \* the cog: "unloaded", "migrating" or "ready"
    loadFound,  \* the schema version the latest initialization found, 0 before any
    memberArg,  \* the text handed to ContextMemberConverter.convert
    memberCtx,  \* its context: whether in a guild, and the command's author
    cached_messages, \* the bot's cached messages, oldest first
    memberResult, \* what convert gave back or raised
    inflight,   \* the lookups of the resolution that await the collaborator's answer
    issued,     \* the lookups the resolution has issued so far, in order
    handlers,   \* the abbreviation commands running side by side, one per invocation
    reports     \* the adds and removes that reported success, in order

convertVars == <<argument, converted>>

taxonVars == <<command, query, pc, results, ancestor, outcome, reply>>

lastVars == <<history, lastCommand, mention, lastReply>>

manyVars == <<manyCommand, taxa_list, taxa, failure, manyReply>>

abbrevVars == <<projects, places, abbrevCommand, abbrevBefore, abbrevSent>>

userVars == <<userConfig, userCommand, userBefore, userReply>>

autoobsVars == <<guildAutoobs, channelAutoobs, channelAsked, autoobsCommand, autoobsSent>>

\* The subsystems that keep state of their own besides the six above.
loadVars == <<schema_version, developer, loadPc, loadFound>>

memberVars == <<memberArg, memberCtx, cached_messages, memberResult>>

resolveVars == <<inflight, issued>>

raceVars == <<handlers, reports>>

moreVars == <<autoobsVars, loadVars, memberVars, resolveVars, raceVars>>

firstVars == <<convertVars, taxonVars, lastVars, manyVars, abbrevVars, userVars>>

firstVarsButUser == <<convertVars, taxonVars, lastVars, manyVars, abbrevVars>>

vars == <<argument, converted, command, query, pc, results, ancestor, outcome, reply,
          history, lastCommand, mention, lastReply,
          manyCommand, taxa_list, taxa, failure, manyReply,
          projects, places, abbrevCommand, abbrevBefore, abbrevSent,
          userConfig, userCommand, userBefore, userReply,
          guildAutoobs, channelAutoobs, channelAsked, autoobsCommand, autoobsSent,
          schema_version, developer, loadPc, loadFound,
          memberArg, memberCtx, cached_messages, memberResult,
          inflight, issued, handlers, reports>>

\* What the commands of one subsystem leave alone: the other subsystems.
notConvert == <<taxonVars, lastVars, manyVars, abbrevVars, userVars, moreVars>>

notTaxon == <<convertVars, lastVars, manyVars, abbrevVars, userVars, moreVars>>

notLast == <<convertVars, taxonVars, manyVars, abbrevVars, userVars, moreVars>>

notMany == <<convertVars, taxonVars, lastVars, abbrevVars, userVars, moreVars>>

notAbbrev == <<convertVars, taxonVars, lastVars, manyVars, userVars, moreVars>>

notUser == <<convertVars, taxonVars, lastVars, manyVars, abbrevVars, moreVars>>

(***************************************************************************)
(* Small helpers on sequences.                                             *)
(***************************************************************************)
Range(s) == {s[i] : i \in 1..Len(s)}

SeqsUpTo(S, n) == UNION {[1..k -> S] : k \in 0..n}

(***************************************************************************)
(* converters.py: CompoundQueryConverter.convert                           *)
(*                                                                         *)
(* The raw argument is a sequence of lexical units: a blank (SP), a double *)
(* quote (DQ), or a run of characters holding neither (a word).  A token   *)
(* produced by shlex is again a sequence of units: the words and, inside   *)
(* quotes, the blanks that make up its text.                               *)
(***************************************************************************)
SP == " "
DQ == "\""

OptionStrings == {"--of", "--in", "--by", "--from"}

Words == {"bear", "in", "by", "from", "--of", "--in", "--by"}

Units == Words \cup {SP, DQ}

MaxRawLen == 5

\* A command is only dispatched to the converter with an argument that has
\* some word in it.
RawTexts == {raw \in SeqsUpTo(Units, MaxRawLen) : \E i \in 1..Len(raw) : raw[i] \in Words}

\* The destination each option string stores into (the dest= of add_argument).
Dest(opt) ==
    CASE opt = "--of"   -> "main"
      [] opt = "--in"   -> "ancestor"
      [] opt = "--by"   -> "user"
      [] opt = "--from" -> "place"

\* shlex.split(argument) in POSIX mode, restricted to blanks and double
\* quotes: st is the lexer state ("ws" between tokens, "word" inside an
\* unquoted run, "dq" inside double quotes), tok the token being built,
\* acc the tokens emitted so far.  A closing quote returns to "word", so a
\* quoted empty string still yields a token.  End of input inside quotes
\* raises ValueError("No closing quotation").
RECURSIVE ShlexScan(_, _, _, _, _)
ShlexScan(raw, i, st, tok, acc) ==
    IF i > Len(raw)
    THEN IF st = "dq" THEN [kind |-> "ValueError", tokens |-> <<>>]
         ELSE IF st = "word" THEN [kind |-> "tokens", tokens |-> Append(acc, tok)]
         ELSE [kind |-> "tokens", tokens |-> acc]
    ELSE LET u == raw[i] IN
         IF st = "dq"
         THEN IF u = DQ THEN ShlexScan(raw, i + 1, "word", tok, acc)
              ELSE ShlexScan(raw, i + 1, "dq", Append(tok, u), acc)
         ELSE IF u = DQ THEN ShlexScan(raw, i + 1, "dq", tok, acc)
         ELSE IF u = SP
              THEN IF st = "word" THEN ShlexScan(raw, i + 1, "ws", <<>>, Append(acc, tok))
                   ELSE ShlexScan(raw, i + 1, "ws", <<>>, acc)
         ELSE ShlexScan(raw, i + 1, "word", Append(tok, u), acc)

ShlexSplit(raw) == ShlexScan(raw, 1, "ws", <<>>, <<>>)

\* argparse's _parse_optional on one token: "A" for a positional string,
\* the option string for a known option, "O?" for an unknown option.  A
\* token is an option candidate when its text starts with "-"; an exact
\* option string is that option; otherwise a token holding a blank is a
\* positional and any other is an unknown option.
TokenClass(tok) ==
    IF tok = <<>> THEN "A"
    ELSE IF tok[1] \notin OptionStrings THEN "A"
    ELSE IF Len(tok) = 1 THEN tok[1]
    ELSE IF SP \in Range(tok) THEN "A"
    ELSE "O?"

\* parser.parse_args(tokens) for four options declared nargs="*" and no
\* positional: cur is the option now collecting values ("" before the first
\* option).  A positional before any option, or an unknown option, ends in
\* parser.error, which NoExitParser turns into BadArgument.  A repeated
\* option starts its list afresh (the store action overwrites).
RECURSIVE ArgparseScan(_, _, _, _)
ArgparseScan(tokens, i, cur, ns) ==
    IF i > Len(tokens) THEN [kind |-> "Namespace", vals |-> ns]
    ELSE LET c == TokenClass(tokens[i]) IN
         IF c = "O?" THEN [kind |-> "BadArgument", vals |-> ns]
         ELSE IF c = "A"
              THEN IF cur = "" THEN [kind |-> "BadArgument", vals |-> ns]
                   ELSE ArgparseScan(tokens, i + 1, cur,
                                     [ns EXCEPT ![cur] = Append(@, tokens[i])])
         ELSE ArgparseScan(tokens, i + 1, Dest(c), [ns EXCEPT ![Dest(c)] = <<>>])

EmptyNamespace == [main |-> <<>>, ancestor |-> <<>>, user |-> <<>>, place |-> <<>>]

ParseArgs(tokens) == ArgparseScan(tokens, 1, "", EmptyNamespace)

\* vals["main"]: parse_args returns an argparse.Namespace, which has no
\* __getitem__, so the subscription raises TypeError.
NamespaceSubscript(ns, key) == [kind |-> "TypeError", value |-> <<>>]

\* The whole of convert: the outcome is the CompoundQuery built from the
\* four subscriptions, or the first exception raised on the way.
ConvertOutcome(raw) ==
    LET split == ShlexSplit(raw) IN
    IF split.kind = "ValueError" THEN [kind |-> "ValueError", query |-> EmptyNamespace]
    ELSE LET parsed == ParseArgs(split.tokens) IN
         IF parsed.kind = "BadArgument"
         THEN [kind |-> "BadArgument", query |-> EmptyNamespace]
         ELSE LET m == NamespaceSubscript(parsed.vals, "main")
                  a == NamespaceSubscript(parsed.vals, "ancestor")
                  u == NamespaceSubscript(parsed.vals, "user")
                  p == NamespaceSubscript(parsed.vals, "place")
              IN IF \E r \in {m, a, u, p} : r.kind = "TypeError"
                 THEN [kind |-> "TypeError", query |-> EmptyNamespace]
                 ELSE [kind |-> "ok",
                       query |-> [main |-> m.value, ancestor |-> a.value,
                                  user |-> u.value, place |-> p.value]]

Pending == [kind |-> "pending", query |-> EmptyNamespace]

ConvertIdle == argument = <<>> /\ converted = Pending

\* No last mention: the scan found no message with a link.
None == [found |-> FALSE, source |-> 0, id |-> 0, live |-> FALSE, taxon |-> 0]

\* What a `last` command sends; nothing yet when the kind is "none".
Shown(kind, id) == [kind |-> kind, id |-> id, text |-> <<>>]

NoLastCommand == [name |-> "", rank |-> ""]

\* The `last` group at rest, in an empty channel.
LastIdle ==
    /\ history = <<>> /\ lastCommand = NoLastCommand
    /\ mention = None /\ lastReply = Shown("none", 0)

\* What a taxa-list command sends: nothing yet when the kind is "none".
NoManyReply == [kind |-> "none", taxa |-> <<>>, reason |-> ""]

\* The taxa-list commands at rest.
ManyIdle ==
    /\ manyCommand = "" /\ taxa_list = <<>> /\ taxa = <<>>
    /\ failure = "" /\ manyReply = NoManyReply

\* The spellings of the abbreviations given to the add and remove commands.
Abbrevs == {<<"h", "o", "m", "e">>, <<"H", "o", "m", "e">>, <<"a", "b">>, <<"A", "B">>}

\* A guild's abbreviation map as registered: no abbreviation defined.
NoAbbrevs == [k \in Abbrevs |-> 0]

NoAbbrevCommand == [name |-> "", guild |-> FALSE, abbrev |-> <<>>, number |-> 0]

\* The abbreviation commands at rest, in a guild that has defined none.
AbbrevIdle ==
    /\ projects = NoAbbrevs /\ places = NoAbbrevs
    /\ abbrevCommand = NoAbbrevCommand
    /\ abbrevBefore = [projects |-> NoAbbrevs, places |-> NoAbbrevs]
    /\ abbrevSent = <<>>

\* register_user: the config of a Discord user nobody has added.
NoUser == [inat_user_id |-> 0, known_in |-> <<>>, known_all |-> FALSE]

NoUserCommand == [name |-> "", guild |-> 0, looked |-> 0, value |-> "none"]

\* The user commands at rest.
UserIdle ==
    /\ userConfig = NoUser /\ userCommand = NoUserCommand
    /\ userBefore = NoUser /\ userReply = <<>>

\* The channels of the guild the autoobs commands are given in.
MaxChannels == 2

Channels == 1..MaxChannels

NoAutoobsCommand == [name |-> "", channel |-> 0, state |-> ""]

\* register_guild(autoobs=False), register_channel(autoobs=None): the modes
\* of a guild whose moderators have set nothing.
AutoobsIdle ==
    /\ guildAutoobs = "False"
    /\ channelAutoobs = [c \in Channels |-> "None"]
    /\ channelAsked = [c \in Channels |-> "None"]
    /\ autoobsCommand = NoAutoobsCommand
    /\ autoobsSent = <<>>

\* The cog loaded and ready on a bot whose config is at the current schema.
LoadIdle ==
    /\ schema_version = 2 /\ developer = FALSE
    /\ loadPc = "ready" /\ loadFound = 0

NoMember == [kind |-> "pending", id |-> 0]

\* ContextMemberConverter not in use.
MemberIdle ==
    /\ memberArg = <<>> /\ memberCtx = [guild |-> FALSE, author |-> 0]
    /\ cached_messages = <<>> /\ memberResult = NoMember

\* No resolution under way.
ResolveIdle == inflight = {} /\ issued = <<>>

\* The invocations of the abbreviation commands that may run side by side.
MaxHandlers == 2

Handlers == 1..MaxHandlers

IdleHandler == [pc |-> "idle", name |-> "", abbrev |-> <<>>, number |-> 0, local |-> <<>>]

RaceIdle == handlers = [p \in Handlers |-> IdleHandler] /\ reports = <<>>

\* Every further subsystem at rest.
MoreIdle == AutoobsIdle /\ LoadIdle /\ MemberIdle /\ ResolveIdle /\ RaceIdle

(***************************************************************************)
(* Text.  A string is a sequence of one-character strings, so that prefix, *)
(* case folding and word splitting are computed as the program computes    *)
(* them.                                                                   *)
(***************************************************************************)
LowerChar(c) ==
    CASE c = "A" -> "a" [] c = "B" -> "b" [] c = "E" -> "e" [] c = "P" -> "p"
      [] c = "R" -> "r" [] c = "U" -> "u" [] c = "H" -> "h" [] c = "M" -> "m"
      [] OTHER -> c

LowerStr(s) == [i \in 1..Len(s) |-> LowerChar(s[i])]

IsUpperChar(c) == LowerChar(c) # c

Digits == {"0", "1", "2", "3", "4", "5", "6", "7", "8", "9"}

DigitVal(c) ==
    CASE c = "0" -> 0 [] c = "1" -> 1 [] c = "2" -> 2 [] c = "3" -> 3 [] c = "4" -> 4
      [] c = "5" -> 5 [] c = "6" -> 6 [] c = "7" -> 7 [] c = "8" -> 8 [] c = "9" -> 9

IsNumeric(s) == Len(s) > 0 /\ \A i \in 1..Len(s) : s[i] \in Digits

RECURSIVE NumVal(_)
NumVal(s) == IF s = <<>> THEN 0
             ELSE 10 * NumVal(SubSeq(s, 1, Len(s) - 1)) + DigitVal(s[Len(s)])

StartsWith(s, prefix) ==
    Len(prefix) <= Len(s) /\ SubSeq(s, 1, Len(prefix)) = prefix

Take(s, n) == SubSeq(s, 1, IF n < Len(s) THEN n ELSE Len(s))

\* The words of a name: maximal runs without a blank or a hyphen.
RECURSIVE SplitWords(_, _, _)
SplitWords(s, cur, acc) ==
    IF s = <<>> THEN (IF cur = <<>> THEN acc ELSE Append(acc, cur))
    ELSE IF Head(s) \in {" ", "-"}
         THEN SplitWords(Tail(s), <<>>, IF cur = <<>> THEN acc ELSE Append(acc, cur))
         ELSE SplitWords(Tail(s), Append(cur, Head(s)), acc)

RECURSIVE JoinWords(_)
JoinWords(ws) ==
    IF ws = <<>> THEN <<>>
    ELSE IF Len(ws) = 1 THEN ws[1]
    ELSE ws[1] \o <<" ">> \o JoinWords(Tail(ws))

(***************************************************************************)
(* The taxonomy collaborator's records (CandidateTaxon): identifier, name, *)
(* common names, rank and root-to-leaf ancestor chain, the taxon itself    *)
(* last.                                                                   *)
(***************************************************************************)
TaxonIds == 1..5

TaxonName(id) ==
    CASE id = 1 -> <<"A", "n", "i", "m", "a", "l", "i", "a">>
      [] id = 2 -> <<"U", "r", "s", "i", "d", "a", "e">>
      [] id = 3 -> <<"U", "r", "s", "u", "s">>
      [] id = 4 -> <<"U", "r", "s", "u", "s", " ", "a", "r", "c", "t", "o", "s">>
      [] id = 5 -> <<"P", "l", "a", "n", "t", "a", "e">>

CommonNames(id) ==
    CASE id = 1 -> {<<"A", "n", "i", "m", "a", "l", "s">>}
      [] id = 2 -> {<<"B", "e", "a", "r", "s">>}
      [] id = 3 -> {<<"b", "e", "a", "r">>}
      [] id = 4 -> {<<"B", "r", "o", "w", "n", " ", "B", "e", "a", "r">>}
      [] id = 5 -> {}

TaxonRank(id) ==
    CASE id = 1 -> "kingdom" [] id = 2 -> "family" [] id = 3 -> "genus"
      [] id = 4 -> "species" [] id = 5 -> "kingdom"

AncestorChain(id) ==
    CASE id = 1 -> <<1>> [] id = 2 -> <<1, 2>> [] id = 3 -> <<1, 2, 3>>
      [] id = 4 -> <<1, 2, 3, 4>> [] id = 5 -> <<5>>

AllNames(id) == {TaxonName(id)} \cup CommonNames(id)

\* The names of each taxon, case-folded, as the matching steps compare them.
FoldedNames == [id \in TaxonIds |-> {LowerStr(n) : n \in AllNames(id)}]

(***************************************************************************)
(* Rank vocabulary: the keywords a query may hold, each naming one rank.   *)
(* The abbreviations are those the taxon command's help lists.             *)
(***************************************************************************)
RankEquivalent(kw) ==
    CASE kw = "sp" -> "species" [] kw = "ssp" -> "subspecies"
      [] kw = "gen" -> "genus" [] kw = "var" -> "variety" [] OTHER -> kw

\* The rank a term's text names, "" when the text is no rank keyword.
RankOfKeyword(text) ==
    LET t == LowerStr(text) IN
    CASE t = <<"f", "a", "m", "i", "l", "y">> -> "family"
      [] t = <<"g", "e", "n", "u", "s">> -> "genus"
      [] t = <<"g", "e", "n">> -> RankEquivalent("gen")
      [] t = <<"s", "p", "e", "c", "i", "e", "s">> -> "species"
      [] t = <<"s", "p">> -> RankEquivalent("sp")
      [] t = <<"k", "i", "n", "g", "d", "o", "m">> -> "kingdom"
      [] OTHER -> ""

(***************************************************************************)
(* CompoundQuery: the terms of the four clauses, each term with its text   *)
(* and whether it was written in double quotes, and the rank filters a     *)
(* command added to the subject.                                           *)
(***************************************************************************)
Term(text, quoted) == [text |-> text, quoted |-> quoted]

T_bear == Term(<<"b", "e", "a", "r">>, FALSE)
Q_bear == Term(<<"b", "e", "a", "r">>, TRUE)
T_family == Term(<<"f", "a", "m", "i", "l", "y">>, FALSE)
T_BEAR == Term(<<"B", "E", "A", "R">>, FALSE)
T_3 == Term(<<"3">>, FALSE)
T_9 == Term(<<"9">>, FALSE)
T_animals == Term(<<"a", "n", "i", "m", "a", "l", "s">>, FALSE)

SubjectVocabulary == {T_bear, Q_bear, T_family, T_BEAR, T_3, T_9}

\* The ancestor clauses tried: none, a name, an identifier.
AncestorClauses == {<<>>, <<T_animals>>, <<T_3>>}

MaxTerms == 2

MaxResults == 2

MaxAncestorResults == 1

Queries ==
    [subject : SeqsUpTo(SubjectVocabulary, MaxTerms),
     ancestor : AncestorClauses,
     user : {<<>>},
     place : {<<>>},
     ranks : {{}}]

\* What the remote name search may return: any candidates, in any
\* relevance order, without repetition.
ResponsesUpTo(n) ==
    {r \in SeqsUpTo(TaxonIds, n) : \A i, j \in 1..Len(r) : i # j => r[i] # r[j]}

Responses == ResponsesUpTo(MaxResults)

AncestorResponses == ResponsesUpTo(MaxAncestorResults)

(***************************************************************************)
(* The resolver (query_taxon): the filter cascade, in its stated order.    *)
(***************************************************************************)
NotFound == [kind |-> "NotFound", id |-> 0]

Found(id) == [kind |-> "taxon", id |-> id]

NoOutcome == [kind |-> "none", id |-> 0]

\* IdMatch as it would be if only a bare identifier were looked up.
IdMatchBareOnly(terms) ==
    IF Len(terms) = 1 /\ IsNumeric(terms[1].text) /\ NumVal(terms[1].text) \in TaxonIds
    THEN NumVal(terms[1].text) ELSE 0

\* Step 1: the first numeric term whose identifier the collaborator knows
\* (0 when there is none).
RECURSIVE IdMatch(_)
IdMatch(terms) ==
    IF terms = <<>> THEN 0
    ELSE IF IsNumeric(Head(terms).text) /\ NumVal(Head(terms).text) \in TaxonIds
         THEN NumVal(Head(terms).text)
         ELSE IdMatch(Tail(terms))

\* The text of the name search: the non-numeric terms, joined by blanks.
SearchText(terms) ==
    LET IsName(t) == ~IsNumeric(t.text)
        names == SelectSeq(terms, IsName)
    IN JoinWords([i \in 1..Len(names) |-> names[i].text])

\* The rank filters of a clause: the ranks its terms name, and those added.
RankFilters(terms, added) ==
    ({RankOfKeyword(terms[i].text) : i \in 1..Len(terms)} \ {""}) \cup added

\* The four-letter code of a common name under the AOU convention: four
\* letters of a one-word name, two and two of a two-word name, one, one and
\* two of a three-word name, one of each of the first four words otherwise.
AouInitials(name) ==
    LET ws == SplitWords(name, <<>>, <<>>) IN
    CASE Len(ws) = 0 -> <<>>
      [] Len(ws) = 1 -> Take(ws[1], 4)
      [] Len(ws) = 2 -> Take(ws[1], 2) \o Take(ws[2], 2)
      [] Len(ws) = 3 -> Take(ws[1], 1) \o Take(ws[2], 1) \o Take(ws[3], 2)
      [] OTHER -> Take(ws[1], 1) \o Take(ws[2], 1) \o Take(ws[3], 1) \o Take(ws[4], 1)

AouCodes == [id \in TaxonIds |-> {LowerStr(AouInitials(n)) : n \in CommonNames(id)}]

IsAouToken(text) == Len(text) = 4 /\ \A i \in 1..4 : IsUpperChar(text[i])

\* Step 2: the first candidate one of whose common names has the code of a
\* four-letter all-caps term (0 when there is none).
AouMatch(terms, cands) ==
    LET codes == {LowerStr(terms[i].text) : i \in {j \in 1..Len(terms) : IsAouToken(terms[j].text)}}
        Hit(id) == AouCodes[id] \cap codes # {}
        hits == SelectSeq(cands, Hit)
    IN IF hits = <<>> THEN 0 ELSE hits[1]

\* ExactFilter as it would be if a quoted term matched as a prefix.
ExactFilterPrefix(terms, cands) ==
    LET quoted == {LowerStr(terms[i].text) : i \in {j \in 1..Len(terms) : terms[j].quoted}}
        Keep(id) == \A q \in quoted : \E n \in FoldedNames[id] : StartsWith(n, q)
    IN SelectSeq(cands, Keep)

\* Step 3: every quoted term equals, case-insensitively, the candidate's
\* name or one of its common names.
ExactFilter(terms, cands) ==
    LET quoted == {LowerStr(terms[i].text) : i \in {j \in 1..Len(terms) : terms[j].quoted}}
        Keep(id) == quoted \subseteq FoldedNames[id]
    IN SelectSeq(cands, Keep)

\* Step 4: the candidate's rank is one of the rank filters, when any is given.
RankFilter(ranks, cands) ==
    LET Keep(id) == ranks = {} \/ TaxonRank(id) \in ranks
    IN SelectSeq(cands, Keep)

\* AncestorFilter as it would be if the ancestor clause were not applied.
AncestorFilterOff(anc, cands) == cands

\* Step 5: the candidate descends from (or is) the resolved ancestor.
AncestorFilter(anc, cands) ==
    LET Keep(id) == anc \in Range(AncestorChain(id))
    IN SelectSeq(cands, Keep)

\* Step 6: candidates a name of which starts with the whole subject text
\* come before the others, then the shortest scientific name, then the
\* collaborator's relevance order.
NameLength == [id \in TaxonIds |-> Len(TaxonName(id))]

StartingWith(text, cands) ==
    LET Starts(id) == \E n \in FoldedNames[id] : StartsWith(n, text)
    IN SelectSeq(cands, Starts)

\* FirstShortest as it would be if the last of the tied candidates won.
LastShortest(pool) ==
    pool[CHOOSE i \in 1..Len(pool) :
            \A j \in 1..Len(pool) :
                \/ NameLength[pool[i]] < NameLength[pool[j]]
                \/ NameLength[pool[i]] = NameLength[pool[j]] /\ i >= j]

FirstShortest(pool) ==
    pool[CHOOSE i \in 1..Len(pool) :
            \A j \in 1..Len(pool) :
                \/ NameLength[pool[i]] < NameLength[pool[j]]
                \/ NameLength[pool[i]] = NameLength[pool[j]] /\ i <= j]

Preferred(starting, cands) ==
    FirstShortest(IF starting = <<>> THEN cands ELSE starting)

\* Pick as it would be if a by clause narrowed the candidates to taxa the
\* user has observed (none, for the users of the model).
PickForUser(terms, cands) ==
    IF cands = <<>> \/ query.user # <<>> THEN NotFound
    ELSE Found(Preferred(StartingWith(LowerStr(SearchText(terms)), cands), cands))

\* Step 6: among the candidates left, the preferred one.
Pick(terms, cands) ==
    IF cands = <<>> THEN NotFound
    ELSE Found(Preferred(StartingWith(LowerStr(SearchText(terms)), cands), cands))

\* Steps 2 to 4 on the name search's candidates.
Shortlist(terms, added, cands) ==
    RankFilter(RankFilters(terms, added), ExactFilter(terms, cands))

\* A query without ancestor clause, given its name search's candidates.
ResolveSimple(terms, added, cands) ==
    IF IdMatch(terms) # 0 THEN Found(IdMatch(terms))
    ELSE IF AouMatch(terms, cands) # 0 THEN Found(AouMatch(terms, cands))
    ELSE Pick(terms, Shortlist(terms, added, cands))

\* Steps 5 and 6, once the ancestor clause has resolved.
PickWithin(anc, terms, cands) ==
    IF anc.kind # "taxon" THEN NotFound
    ELSE Pick(terms, AncestorFilter(anc.id, cands))

(***************************************************************************)
(* The taxon commands.                                                     *)
(***************************************************************************)
Commands == {"taxon", "species"}

\* SpeciesQuery as it would be if the rank were not appended.
SpeciesQueryUnfiltered(q) == q

\* species: query_species.main.ranks.append("species").
SpeciesQuery(q) == [q EXCEPT !.ranks = @ \cup {"species"}]

\* check_taxon_query: a query must name a subject.
CheckTaxonQuery(q) == q.subject # <<>>

Embed(id) == [kind |-> "embed", taxon |-> id]

Apology == [kind |-> "apology", taxon |-> 0]

NoReply == [kind |-> "none", taxon |-> 0]

\* The tail of the taxon handlers: a LookupError is apologized for, any
\* taxon returned is shown.
ReplyFor(o) == IF o.kind = "taxon" THEN Embed(o.id) ELSE Apology

Finish(o) == outcome' = o /\ reply' = ReplyFor(o) /\ pc' = "done"

TaxonIdle ==
    /\ command = "" /\ pc = "idle" /\ results = <<>>
    /\ query = [subject |-> <<>>, ancestor |-> <<>>, user |-> <<>>, place |-> <<>>,
                ranks |-> {}]
    /\ ancestor = NoOutcome /\ outcome = NoOutcome /\ reply = NoReply

InitTaxon ==
    /\ command \in Commands /\ query \in Queries /\ pc = "start"
    /\ results = <<>> /\ ancestor = NoOutcome /\ outcome = NoOutcome /\ reply = NoReply
    /\ ConvertIdle /\ LastIdle /\ ManyIdle /\ AbbrevIdle /\ UserIdle /\ MoreIdle

\* The command is invoked: species adds its rank filter and hands over to
\* taxon, the query is checked, and the resolver looks up the numeric
\* identifiers of the subject.
Invoke ==
    /\ pc = "start"
    /\ LET q == IF command = "species" THEN SpeciesQuery(query) ELSE query IN
       /\ query' = q
       /\ IF ~CheckTaxonQuery(q)
          THEN outcome' = NoOutcome /\ reply' = Apology /\ pc' = "done"
          ELSE IF IdMatch(q.subject) # 0 THEN Finish(Found(IdMatch(q.subject)))
          ELSE IF SearchText(q.subject) = <<>> THEN Finish(NotFound)
          ELSE pc' = "search" /\ UNCHANGED <<outcome, reply>>
    /\ UNCHANGED <<command, results, ancestor, notTaxon>>

\* The name search returns; steps 2 to 4 run on its candidates, and the
\* command ends here unless an ancestor clause is still to be resolved.
NameSearch ==
    /\ pc = "search"
    /\ \E r \in Responses :
         LET aou == AouMatch(query.subject, r)
             short == Shortlist(query.subject, query.ranks, r)
         IN /\ results' = r
            /\ IF aou # 0 THEN Finish(Found(aou))
               ELSE IF short = <<>> THEN Finish(NotFound)
               ELSE IF query.ancestor = <<>> THEN Finish(Pick(query.subject, short))
               ELSE pc' = "ancestor" /\ UNCHANGED <<outcome, reply>>
    /\ UNCHANGED <<command, query, ancestor, notTaxon>>

\* The ancestor clause is resolved as a query of its own (its name search
\* returns r), and steps 5 and 6 end the command.
AncestorResolve ==
    /\ pc = "ancestor"
    /\ \E r \in AncestorResponses :
         /\ (IdMatch(query.ancestor) # 0 \/ SearchText(query.ancestor) = <<>>) => r = <<>>
         /\ LET anc == ResolveSimple(query.ancestor, {}, r) IN
            /\ ancestor' = anc
            /\ Finish(PickWithin(anc, query.subject,
                                 Shortlist(query.subject, query.ranks, results)))
    /\ UNCHANGED <<command, query, results, notTaxon>>

NextTaxon == Invoke \/ NameSearch \/ AncestorResolve

InitConvert ==
    /\ argument \in RawTexts /\ converted = Pending
    /\ TaxonIdle /\ LastIdle /\ ManyIdle /\ AbbrevIdle /\ UserIdle /\ MoreIdle

Convert ==
    /\ converted.kind = "pending"
    /\ converted' = ConvertOutcome(argument)
    /\ UNCHANGED <<argument, notConvert>>

NextConvert == Convert

(***************************************************************************)
(* The channel history and the `last` command group.  A message carries at *)
(* most one link: to an observation or to a taxon.  The records behind the *)
(* links are those of the external lookup: an observation with a taxon, an *)
(* observation without one, and identifiers whose record is gone.          *)
(***************************************************************************)
PlainMessage == [kind |-> "text", id |-> 0]

ObsLink(n) == [kind |-> "obs", id |-> n]

TaxonLink(n) == [kind |-> "taxon", id |-> n]

ObsIds == {1, 2}

DeletedObsId == 3

DeletedTaxonId == 9

\* The taxon of an observation, 0 when it has none.
ObsTaxon(n) == CASE n = 1 -> 4 [] OTHER -> 0

Messages ==
    {PlainMessage} \cup {ObsLink(n) : n \in ObsIds \cup {DeletedObsId}}
                   \cup {TaxonLink(n) : n \in {3, 4, DeletedTaxonId}}

\* The longest history the channel is let grow to.
MaxHistory == 3

\* The number of messages a scan asks the channel for (limit=1000 in the
\* handlers), scaled to the histories explored.
HistoryLimit == 2

Min(a, b) == IF a <= b THEN a ELSE b

\* The window as it would be if the channel listed it oldest first.
WindowOldestFirst(h) ==
    [i \in 1..Min(HistoryLimit, Len(h)) |-> Min(HistoryLimit, Len(h)) + 1 - i]

\* ctx.history(limit=...).flatten(): the positions of the newest messages,
\* newest first.
Window(h) == [i \in 1..Min(HistoryLimit, Len(h)) |-> i]

\* The first position of the window, in its order, whose message carries a
\* link of the kind; 0 when none does.
RECURSIVE ScanFor(_, _, _, _)
ScanFor(h, window, kind, i) ==
    IF i > Len(window) THEN 0
    ELSE IF h[window[i]].kind = kind THEN window[i]
    ELSE ScanFor(h, window, kind, i + 1)

\* The scan as it would be if links to records that are gone were passed
\* over in favour of older links.
GetLastObsMsgSkippingDead(h, window) ==
    LET live == SelectSeq(window, LAMBDA i : h[i].kind = "obs" /\ h[i].id \in ObsIds) IN
    IF live = <<>> THEN None
    ELSE [found |-> TRUE, source |-> live[1], id |-> h[live[1]].id, live |-> TRUE,
          taxon |-> ObsTaxon(h[live[1]].id)]

\* INatLinkMsg.get_last_obs_msg: the first message of the window with an
\* observation link, and the observation fetched for it (not live when the
\* record is gone).
GetLastObsMsg(h, window) ==
    LET at == ScanFor(h, window, "obs", 1) IN
    IF at = 0 THEN None
    ELSE [found |-> TRUE, source |-> at, id |-> h[at].id,
          live |-> h[at].id \in ObsIds,
          taxon |-> IF h[at].id \in ObsIds THEN ObsTaxon(h[at].id) ELSE 0]

\* INatLinkMsg.get_last_taxon_msg: the same for taxon links.
GetLastTaxonMsg(h, window) ==
    LET at == ScanFor(h, window, "taxon", 1) IN
    IF at = 0 THEN None
    ELSE [found |-> TRUE, source |-> at, id |-> h[at].id,
          live |-> h[at].id \in TaxonIds,
          taxon |-> IF h[at].id \in TaxonIds THEN h[at].id ELSE 0]

\* The lookup as it would be if a mention found by an earlier command were
\* kept and returned again.
GetLastObsFromHistoryRemembered(h) ==
    IF mention.found THEN mention ELSE GetLastObsMsg(h, Window(h))

GetLastObsFromHistory(h) == GetLastObsMsg(h, Window(h))

GetLastTaxonFromHistory(h) == GetLastTaxonMsg(h, Window(h))

\* The chain positions of a taxon, leaf first, from position i down.
RECURSIVE WalkUp(_, _, _)
WalkUp(chain, rank, i) ==
    IF i = 0 THEN 0
    ELSE IF TaxonRank(chain[i]) = rank THEN chain[i]
    ELSE WalkUp(chain, rank, i - 1)

\* get_taxon_ancestor: the taxon itself when it has the rank, else the
\* entry of its ancestor chain nearest the leaf with that rank, else 0.
FindAncestor(id, rank) ==
    IF TaxonRank(id) = rank THEN id
    ELSE WalkUp(AncestorChain(id), rank, Len(AncestorChain(id)))

Sorry(text) == [kind |-> "apology", id |-> 0, text |-> text]

SendHelp == [kind |-> "help", id |-> 0, text |-> <<>>]

\* An exception that leaves the handler.
Raised(exception) == [kind |-> "error", id |-> 0, text |-> <<exception>>]

NothingFound == Sorry(<<"Nothing found">>)

\* The names a <rank> subcommand is invoked with.
Invocations == {"<rank>", "family", "gen", "sp", "phylum"}

\* The rank branch as it would be if the ancestor were looked up under the
\* keyword as typed.
RankReplyAsTyped(id, rank, whose) ==
    IF TaxonRank(id) = RankEquivalent(rank) THEN Shown("taxon", id)
    ELSE IF FindAncestor(id, rank) # 0 THEN Shown("taxon", FindAncestor(id, rank))
    ELSE Sorry(whose)

\* The rank branch shared by last_obs_rank and last_taxon_rank: the taxon
\* itself when it has the rank, else its ancestor of that rank, else an
\* apology.
RankReply(id, rank, whose) ==
    LET rank_keyword == RankEquivalent(rank) IN
    IF TaxonRank(id) = rank_keyword THEN Shown("taxon", id)
    ELSE IF FindAncestor(id, rank_keyword) # 0
         THEN Shown("taxon", FindAncestor(id, rank_keyword))
    ELSE Sorry(whose)

LastCommand(name) == [name |-> name, rank |-> ""]

Serve(cmd, last, sent) ==
    /\ lastCommand' = cmd /\ mention' = last /\ lastReply' = sent
    /\ UNCHANGED <<history, notLast>>

\* A member posts a message.
Post ==
    /\ Len(history) < MaxHistory
    /\ \E m \in Messages : history' = <<m>> \o history
    /\ lastCommand' = NoLastCommand /\ mention' = None /\ lastReply' = Shown("none", 0)
    /\ UNCHANGED notLast

\* A member edits a message.
EditMessage ==
    /\ \E i \in 1..Len(history), m \in Messages :
         /\ m # history[i]
         /\ history' = [history EXCEPT ![i] = m]
    /\ lastCommand' = NoLastCommand /\ mention' = None /\ lastReply' = Shown("none", 0)
    /\ UNCHANGED notLast

\* A member deletes a message.
DeleteMessage ==
    /\ \E i \in 1..Len(history) :
         history' = [j \in 1..(Len(history) - 1) |->
                        IF j < i THEN history[j] ELSE history[j + 1]]
    /\ lastCommand' = NoLastCommand /\ mention' = None /\ lastReply' = Shown("none", 0)
    /\ UNCHANGED notLast

last_obs ==
    LET last == GetLastObsFromHistory(history) IN
    Serve(LastCommand("last obs"), last,
          IF ~(last.found /\ last.live) THEN NothingFound
          ELSE Shown("obs", last.id))

last_obs_img ==
    LET last == GetLastObsFromHistory(history) IN
    Serve(LastCommand("last obs img"), last,
          IF ~last.found THEN Raised("AttributeError")
          ELSE IF last.live /\ last.taxon # 0 THEN Shown("obs image", last.id)
          ELSE NothingFound)

last_obs_taxon ==
    LET last == GetLastObsFromHistory(history) IN
    Serve(LastCommand("last obs taxon"), last,
          IF last.found /\ last.live /\ last.taxon # 0 THEN Shown("taxon", last.taxon)
          ELSE NothingFound)

last_obs_map ==
    LET last == GetLastObsFromHistory(history) IN
    Serve(LastCommand("last obs map"), last,
          IF last.found /\ last.live /\ last.taxon # 0 THEN Shown("map", last.taxon)
          ELSE NothingFound)

last_obs_rank ==
    \E rank \in Invocations :
      LET last == GetLastObsFromHistory(history) IN
      Serve([name |-> "last obs <rank>", rank |-> rank], last,
            IF ~(last.found /\ last.live) THEN NothingFound
            ELSE IF rank = "<rank>" THEN SendHelp
            ELSE IF last.taxon = 0 THEN Raised("AttributeError")
            ELSE RankReply(last.taxon, rank,
                           <<"The last observation has no", RankEquivalent(rank),
                             "ancestor.">>))

last_taxon ==
    LET last == GetLastTaxonFromHistory(history) IN
    Serve(LastCommand("last taxon"), last,
          IF ~(last.found /\ last.live) THEN NothingFound
          ELSE Shown("taxon", last.taxon))

\* get_user raises LookupError for a member who is not a known user.
last_taxon_by ==
    \E known \in BOOLEAN :
      LET last == GetLastTaxonFromHistory(history) IN
      Serve(LastCommand("last taxon by"), last,
            IF ~(last.found /\ last.live) THEN NothingFound
            ELSE IF ~known THEN Raised("LookupError")
            ELSE Shown("taxon by", last.taxon))

\* An unknown place is no error: the taxon is shown without it.
last_taxon_from ==
    LET last == GetLastTaxonFromHistory(history) IN
    Serve(LastCommand("last taxon from"), last,
          IF ~(last.found /\ last.live) THEN NothingFound
          ELSE Shown("taxon from", last.taxon))

last_taxon_map ==
    LET last == GetLastTaxonFromHistory(history) IN
    Serve(LastCommand("last taxon map"), last,
          IF ~(last.found /\ last.live) THEN NothingFound
          ELSE Shown("map", last.taxon))

last_taxon_image ==
    LET last == GetLastTaxonFromHistory(history) IN
    Serve(LastCommand("last taxon image"), last,
          IF ~(last.found /\ last.live) THEN NothingFound
          ELSE Shown("taxon image", last.taxon))

\* The literal <rank> is answered with the help before the history is read.
last_taxon_rank ==
    \E rank \in Invocations :
      LET last == GetLastTaxonFromHistory(history) IN
      IF rank = "<rank>"
      THEN Serve([name |-> "last taxon <rank>", rank |-> rank], None, SendHelp)
      ELSE Serve([name |-> "last taxon <rank>", rank |-> rank], last,
                 IF ~(last.found /\ last.live) THEN NothingFound
                 ELSE RankReply(last.taxon, rank,
                                <<"The last taxon has no", rank, "ancestor.">>))

Init == LastIdle /\ ConvertIdle /\ TaxonIdle /\ ManyIdle /\ AbbrevIdle /\ UserIdle /\ MoreIdle

Next ==
    \/ Post \/ EditMessage \/ DeleteMessage
    \/ last_obs \/ last_obs_img \/ last_obs_taxon \/ last_obs_map \/ last_obs_rank
    \/ last_taxon \/ last_taxon_by \/ last_taxon_from \/ last_taxon_map
    \/ last_taxon_image \/ last_taxon_rank

Spec == Init /\ [][Next]_vars

SpecTaxon == InitTaxon /\ [][NextTaxon]_vars

SpecConvert == InitConvert /\ [][NextConvert]_vars

(***************************************************************************)
(* The by and from clauses: a taxon command whose query names a user or a  *)
(* place, served in a channel where the last taxon is asked for, for a     *)
(* user or a place as well.                                                *)
(***************************************************************************)
T_me == Term(<<"m", "e">>, FALSE)

T_home == Term(<<"h", "o", "m", "e">>, FALSE)

FilteredQueries ==
    [subject : {<<T_bear>>, <<T_3>>, <<T_bear, T_family>>},
     ancestor : AncestorClauses,
     user : {<<>>, <<T_me>>},
     place : {<<>>, <<T_home>>},
     ranks : {{}}]

FilteredHistories ==
    {<<>>, <<TaxonLink(4)>>, <<TaxonLink(DeletedTaxonId)>>, <<ObsLink(1), TaxonLink(3)>>}

InitFiltered ==
    /\ command \in Commands /\ query \in FilteredQueries /\ pc = "start"
    /\ results = <<>> /\ ancestor = NoOutcome /\ outcome = NoOutcome /\ reply = NoReply
    /\ history \in FilteredHistories /\ lastCommand = NoLastCommand
    /\ mention = None /\ lastReply = Shown("none", 0)
    /\ ConvertIdle /\ ManyIdle /\ AbbrevIdle /\ UserIdle /\ MoreIdle

NextFiltered ==
    \/ Invoke \/ NameSearch \/ AncestorResolve
    \/ last_taxon \/ last_taxon_by \/ last_taxon_from

SpecFiltered == InitFiltered /\ [][NextFiltered]_vars

(***************************************************************************)
(* The taxa-list commands, related and map: a comma-separated list of      *)
(* taxon queries, each segment parsed and resolved in turn.                *)
(***************************************************************************)
Word(text) == [kind |-> "word", text |-> text]

QuoteMark == [kind |-> "quote", text |-> <<DQ>>]

Comma == [kind |-> "comma", text |-> <<",">>]

ListUnits ==
    {Word(<<"4">>), Word(<<"5">>), Word(<<"b", "e", "a", "r">>), QuoteMark, Comma}

\* The longest list, in units.
MaxListLen == 5

\* The handlers take the rest of the command line, which is never empty.
TaxaLists == SeqsUpTo(ListUnits, MaxListLen) \ {<<>>}

\* taxa_list.split(","): the runs of units between commas, empty runs kept.
RECURSIVE SplitCommas(_, _, _, _)
SplitCommas(list, i, cur, acc) ==
    IF i > Len(list) THEN Append(acc, cur)
    ELSE IF list[i] = Comma THEN SplitCommas(list, i + 1, <<>>, Append(acc, cur))
    ELSE SplitCommas(list, i + 1, Append(cur, list[i]), acc)

Segments(list) == SplitCommas(list, 1, <<>>, <<>>)

\* parse on one segment: the words between a pair of quotes are quoted
\* terms; a quote left open is a MalformedQuery.
RECURSIVE ParseScan(_, _, _, _)
ParseScan(seg, i, open, acc) ==
    IF i > Len(seg)
    THEN IF open THEN [kind |-> "MalformedQuery", terms |-> <<>>]
         ELSE [kind |-> "query", terms |-> acc]
    ELSE IF seg[i] = QuoteMark THEN ParseScan(seg, i + 1, ~open, acc)
    ELSE ParseScan(seg, i + 1, open, Append(acc, Term(seg[i].text, open)))

ParseSegment(seg) == ParseScan(seg, 1, FALSE, <<>>)

\* query_taxa on the next segment, the segments before it having resolved
\* to done and its name search returning r: the segment is parsed and
\* resolved, and the first error ends the whole resolution.
QueryNext(list, done, r) ==
    LET segs == Segments(list)
        parsed == ParseSegment(segs[Len(done) + 1])
        found == IF parsed.kind = "query" THEN ResolveSimple(parsed.terms, {}, r)
                 ELSE NotFound
    IN IF parsed.kind # "query"
       THEN [taxa |-> <<>>, failure |-> parsed.kind, finished |-> TRUE]
       ELSE IF found.kind # "taxon"
       THEN [taxa |-> <<>>, failure |-> "NotFound", finished |-> TRUE]
       ELSE [taxa |-> Append(done, found.id), failure |-> "",
             finished |-> Len(done) + 1 = Len(segs)]

\* The name search is only made for a segment that parses, has no known
\* identifier and has some name in it.
Searched(list, done) ==
    LET parsed == ParseSegment(Segments(list)[Len(done) + 1]) IN
    /\ parsed.kind = "query"
    /\ IdMatch(parsed.terms) = 0
    /\ SearchText(parsed.terms) # <<>>

\* The length of the common prefix of two ancestor chains.
RECURSIVE CommonPrefix(_, _, _)
CommonPrefix(a, b, n) ==
    IF n < Len(a) /\ n < Len(b) /\ a[n + 1] = b[n + 1] THEN CommonPrefix(a, b, n + 1)
    ELSE n

Relatedness(x, y) == CommonPrefix(AncestorChain(x), AncestorChain(y), 0)

\* The order as it would be with the least related taxa first.
InsertRelatedAscending(first, x, sorted) ==
    LET before == {i \in 1..Len(sorted) :
                     Relatedness(first, sorted[i]) <= Relatedness(first, x)}
        n == Cardinality(before)
    IN SubSeq(sorted, 1, n) \o <<x>> \o SubSeq(sorted, n + 1, Len(sorted))

\* x is put after the taxa at least as related to the first as it is.
InsertRelated(first, x, sorted) ==
    LET before == {i \in 1..Len(sorted) :
                     Relatedness(first, sorted[i]) >= Relatedness(first, x)}
        n == Cardinality(before)
    IN SubSeq(sorted, 1, n) \o <<x>> \o SubSeq(sorted, n + 1, Len(sorted))

\* The taxa in order of descending relatedness to the first of them.
RECURSIVE RelatedOrder(_, _, _)
RelatedOrder(list, i, sorted) ==
    IF i > Len(list) THEN sorted
    ELSE RelatedOrder(list, i + 1, InsertRelated(list[1], list[i], sorted))

ManyReply(kind, shown, reason) == [kind |-> kind, taxa |-> shown, reason |-> reason]

\* make_related_embed.
RelatedEmbed(resolved) == ManyReply("related", RelatedOrder(resolved, 1, <<>>), "")

\* make_map_embed.
MapEmbed(resolved) == ManyReply("map", resolved, "")

ManyCommands == {"related", "map"}

InitMany ==
    /\ manyCommand \in ManyCommands /\ taxa_list \in TaxaLists
    /\ taxa = <<>> /\ failure = "" /\ manyReply = NoManyReply
    /\ ConvertIdle /\ TaxonIdle /\ LastIdle /\ AbbrevIdle /\ UserIdle /\ MoreIdle

\* A taxa-list handler up to its next lookup: a LookupError of query_taxa
\* is apologized for, any other error leaves the handler, and the embed is
\* sent once every segment has resolved.
\* The embed a taxa-list command sends for the taxa it resolved.
EmbedFor(name, shown) ==
    IF name = "related" THEN RelatedEmbed(shown) ELSE MapEmbed(shown)

ListCommand(name) ==
    /\ manyCommand = name /\ manyReply.kind = "none"
    /\ IF taxa_list = <<>>
       THEN manyReply' = ManyReply("help", <<>>, "") /\ UNCHANGED <<taxa, failure>>
       ELSE \E r \in AncestorResponses :
              /\ ~Searched(taxa_list, taxa) => r = <<>>
              /\ LET q == QueryNext(taxa_list, taxa, r) IN
                 /\ taxa' = q.taxa
                 /\ failure' = q.failure
                 /\ manyReply' =
                      IF q.failure = "NotFound" THEN ManyReply("apology", <<>>, q.failure)
                      ELSE IF q.failure # "" THEN ManyReply("error", <<>>, q.failure)
                      ELSE IF q.finished THEN EmbedFor(name, q.taxa)
                      ELSE NoManyReply
    /\ UNCHANGED <<manyCommand, taxa_list, notMany>>

related == ListCommand("related")

map == ListCommand("map")

NextMany == related \/ map

SpecMany == InitMany /\ [][NextMany]_vars

(***************************************************************************)
(* The abbreviation maps of a guild: project add / remove and place add /  *)
(* remove.  Each handler is served whole; both maps are keyed by the       *)
(* lowered abbreviation.                                                   *)
(***************************************************************************)
\* The abbreviations no guild may define: they name a user's own settings.
RESERVED_PLACES == {<<"h", "o", "m", "e">>}

\* The project and place numbers the commands are given.
MaxNumber == 2

Numbers == 1..MaxNumber

\* A variant that keys the maps by the abbreviation as it was typed.
AbbrevKeyAsTyped(abbrev) == abbrev

\* abbrev.lower(): the key an abbreviation is stored and looked up under.
AbbrevKey(abbrev) == LowerStr(abbrev)

Msg(text, key, number) == [text |-> text, key |-> key, number |-> number]

\* The body of project_add and of place_add on the guild's map.  The reserved
\* message is sent and the handler goes on to the next test.
AbbrevAdd(table, abbrev, number) ==
    LET key == AbbrevKey(abbrev)
        warned == IF key \in RESERVED_PLACES
                  THEN <<Msg("cannot be added as it is reserved", key, 0)>>
                  ELSE <<>>
    IN  IF table[key] # 0
        THEN [map |-> table,
              sent |-> Append(warned, Msg("already defined as", key, table[key]))]
        ELSE [map |-> [table EXCEPT ![key] = number],
              sent |-> Append(warned, Msg("abbreviation added", key, number))]

\* The body of project_remove and of place_remove.
AbbrevRemove(table, abbrev) ==
    LET key == AbbrevKey(abbrev)
    IN  IF table[key] = 0
        THEN [map |-> table, sent |-> <<Msg("abbreviation not defined", key, 0)>>]
        ELSE [map |-> [table EXCEPT ![key] = 0],
              sent |-> <<Msg("abbreviation removed", key, 0)>>]

\* One abbreviation command, start to finish.  Outside a guild the handler
\* returns at once.
AbbrevServe(name, guild, abbrev, number, newProjects, newPlaces, msgs) ==
    /\ abbrevCommand' = [name |-> name, guild |-> guild,
                         abbrev |-> abbrev, number |-> number]
    /\ abbrevBefore' = [projects |-> projects, places |-> places]
    /\ projects' = IF guild THEN newProjects ELSE projects
    /\ places' = IF guild THEN newPlaces ELSE places
    /\ abbrevSent' = IF guild THEN msgs ELSE <<>>
    /\ UNCHANGED notAbbrev

project_add ==
    \E guild \in BOOLEAN, abbrev \in Abbrevs, number \in Numbers :
        LET r == AbbrevAdd(projects, abbrev, number)
        IN  AbbrevServe("project add", guild, abbrev, number, r.map, places, r.sent)

project_remove ==
    \E guild \in BOOLEAN, abbrev \in Abbrevs :
        LET r == AbbrevRemove(projects, abbrev)
        IN  AbbrevServe("project remove", guild, abbrev, 0, r.map, places, r.sent)

place_add ==
    \E guild \in BOOLEAN, abbrev \in Abbrevs, number \in Numbers :
        LET r == AbbrevAdd(places, abbrev, number)
        IN  AbbrevServe("place add", guild, abbrev, number, projects, r.map, r.sent)

place_remove ==
    \E guild \in BOOLEAN, abbrev \in Abbrevs :
        LET r == AbbrevRemove(places, abbrev)
        IN  AbbrevServe("place remove", guild, abbrev, 0, projects, r.map, r.sent)

InitAbbrev ==
    /\ AbbrevIdle
    /\ ConvertIdle /\ TaxonIdle /\ LastIdle /\ ManyIdle /\ UserIdle /\ MoreIdle

NextAbbrev == project_add \/ project_remove \/ place_add \/ place_remove

SpecAbbrev == InitAbbrev /\ [][NextAbbrev]_vars

(***************************************************************************)
(* A Discord user's registration: user add, user remove and user set known *)
(* on the user's config, served from any of the guilds the bot is on.      *)
(***************************************************************************)
MaxGuilds == 2

Guilds == 1..MaxGuilds

MaxInatUsers == 2

InatUserIds == 1..MaxInatUsers

\* What the iNat user lookup of user add comes back with: 0 when no user
\* matches what was typed.
Lookups == InatUserIds \cup {0}

Members(list) == {list[i] : i \in 1..Len(list)}

\* list.remove(x): the list without its first x.
ListRemove(list, x) ==
    LET at == CHOOSE i \in 1..Len(list) :
                  list[i] = x /\ \A j \in 1..(i - 1) : list[j] # x
    IN  [i \in 1..(Len(list) - 1) |-> IF i < at THEN list[i] ELSE list[i + 1]]

\* The test user add and get_valid_user_config share: the user has an id and
\* is known everywhere, or was added in this guild.
KnownHere(config, guild) ==
    (config.inat_user_id # 0 /\ config.known_all) \/ guild \in Members(config.known_in)

\* A variant that registers the user under the id just looked up.
UserAddOverwriting(config, guild, looked) ==
    IF KnownHere(config, guild)
    THEN [config |-> config, sent |-> <<"iNat user already known.">>]
    ELSE IF looked = 0
    THEN [config |-> config, sent |-> <<"iNat user not found.">>]
    ELSE [config |-> [config EXCEPT !.inat_user_id = looked,
                                    !.known_in = Append(@, guild)],
          sent |-> <<"is added as">>]

\* user_add on the user's config.
UserAdd(config, guild, looked) ==
    IF KnownHere(config, guild)
    THEN [config |-> config, sent |-> <<"iNat user already known.">>]
    ELSE IF looked = 0
    THEN [config |-> config, sent |-> <<"iNat user not found.">>]
    ELSE IF config.inat_user_id # 0 /\ config.inat_user_id # looked
    THEN [config |-> config,
          sent |-> <<"New iNat user id for user! Registration under old id must be removed first.">>]
    ELSE [config |-> [config EXCEPT !.inat_user_id = looked,
                                    !.known_in = Append(@, guild)],
          sent |-> <<"is added as">>]

\* A variant that only ever takes the guild out of known_in.
UserRemoveKeepingTraces(config, guild) ==
    IF config.inat_user_id = 0
       \/ ~(config.known_all \/ guild \in Members(config.known_in))
    THEN [config |-> config, sent |-> <<"iNat user not known.">>]
    ELSE IF guild \in Members(config.known_in)
    THEN [config |-> [config EXCEPT !.known_in = ListRemove(@, guild)],
          sent |-> <<"iNat user removed from this server.">>]
    ELSE [config |-> config, sent |-> <<>>]

\* A variant that removes a user known everywhere from wherever it is asked.
UserRemoveAnywhere(config, guild) ==
    IF config.inat_user_id = 0
       \/ ~(config.known_all \/ guild \in Members(config.known_in))
    THEN [config |-> config, sent |-> <<"iNat user not known.">>]
    ELSE [config |-> NoUser, sent |-> <<"iNat user removed.">>]

\* user_remove on the user's config.
UserRemove(config, guild) ==
    IF config.inat_user_id = 0
       \/ ~(config.known_all \/ guild \in Members(config.known_in))
    THEN [config |-> config, sent |-> <<"iNat user not known.">>]
    ELSE IF guild \in Members(config.known_in)
    THEN LET rest == ListRemove(config.known_in, guild)
         IN  IF rest # <<>>
             THEN [config |-> [config EXCEPT !.known_in = rest],
                   sent |-> <<"iNat user removed from this server.">>]
             ELSE [config |-> NoUser, sent |-> <<"iNat user removed.">>]
    ELSE IF config.known_in # <<>> /\ config.known_all
    THEN [config |-> config,
          sent |-> <<"iNat user was added on another server and can only be removed there.">>]
    ELSE [config |-> config, sent |-> <<>>]

\* What user set known is given: nothing, true or false.
KnownValues == {"none", "true", "false"}

\* user_set_known on the author's config.  When the author is not known in
\* the guild the LookupError is reported and the handler goes on without a
\* config, which ends it with an UnboundLocalError.
UserSetKnown(config, guild, value) ==
    IF ~KnownHere(config, guild)
    THEN [config |-> config,
          sent |-> <<"Ask a moderator to add your iNat profile link.",
                     "UnboundLocalError">>]
    ELSE IF value = "none"
    THEN [config |-> config, sent |-> <<"settings">>]
    ELSE [config |-> [config EXCEPT !.known_all = (value = "true")],
          sent |-> <<IF value = "true" THEN "will know" ELSE "will not know",
                     "settings">>]

\* One user command, start to finish.
UserServe(name, guild, looked, value, r) ==
    /\ userCommand' = [name |-> name, guild |-> guild,
                       looked |-> looked, value |-> value]
    /\ userBefore' = userConfig
    /\ userConfig' = r.config
    /\ userReply' = r.sent
    /\ UNCHANGED notUser

user_add ==
    \E guild \in Guilds, looked \in Lookups :
        UserServe("user add", guild, looked, "none", UserAdd(userConfig, guild, looked))

user_remove ==
    \E guild \in Guilds :
        UserServe("user remove", guild, 0, "none", UserRemove(userConfig, guild))

user_set_known ==
    \E guild \in Guilds, value \in KnownValues :
        UserServe("user set known", guild, 0, value,
                  UserSetKnown(userConfig, guild, value))

InitUser ==
    /\ UserIdle
    /\ ConvertIdle /\ TaxonIdle /\ LastIdle /\ ManyIdle /\ AbbrevIdle /\ MoreIdle

NextUser == user_add \/ user_remove \/ user_set_known

SpecUser == InitUser /\ [][NextUser]_vars

(***************************************************************************)
(* Properties of CompoundQueryConverter.convert (SpecConvert).             *)
(***************************************************************************)
\* Quoting is balanced when the double quotes pair up.
Balanced(raw) == Cardinality({i \in 1..Len(raw) : raw[i] = DQ}) % 2 = 0

ClauseKeywords == {<<"in">>, <<"by">>, <<"from">>}

ClauseNames == {"main", "ancestor", "user", "place"}

\* C1: for every raw text with balanced quoting, convert succeeds and no term
\* of the subject, ancestor, user or place lists is one of the clause
\* keywords in, by, from.
C1_BalancedParses ==
    (converted.kind # "pending" /\ Balanced(argument)) =>
        /\ converted.kind = "ok"
        /\ \A c \in ClauseNames :
               Range(converted.query[c]) \cap ClauseKeywords = {}

\* C2: for every raw text with unbalanced double quotes, convert fails with
\* BadArgument (the MalformedQuery kind) and with no other error.
C2_UnbalancedIsBadArgument ==
    (converted.kind # "pending" /\ ~Balanced(argument)) =>
        converted.kind = "BadArgument"

(***************************************************************************)
(* Properties of the resolver and the taxon commands (SpecTaxon).          *)
(***************************************************************************)
Resolved == pc = "done" /\ CheckTaxonQuery(query)

\* The identifiers the subject names that the collaborator knows.
KnownIds(terms) ==
    {NumVal(terms[i].text) : i \in {j \in 1..Len(terms) : IsNumeric(terms[j].text)}}
        \cap TaxonIds

\* The rank filters in force: those of the subject's keywords, and species
\* for the species command.
FiltersInForce ==
    ({RankOfKeyword(query.subject[i].text) : i \in 1..Len(query.subject)} \ {""})
        \cup (IF command = "species" THEN {"species"} ELSE {})

\* C3: a query whose subject holds a numeric identifier the collaborator
\* knows resolves to exactly that taxon, whatever other terms, rank filters
\* or ancestor clause it has, and neither the name search nor the ancestor
\* resolution is run.
C3_KnownIdWins ==
    (Resolved /\ KnownIds(query.subject) # {}) =>
        /\ outcome.kind = "taxon"
        /\ outcome.id \in KnownIds(query.subject)
        /\ reply = Embed(outcome.id)
        /\ results = <<>>
        /\ ancestor = NoOutcome

C3_Witness ==
    /\ pc = "done"
    /\ query.subject = <<T_3, T_family>>
    /\ query.ancestor = <<T_animals>>
    /\ outcome = Found(3)

BearFamilyScenario(first) ==
    /\ pc = "done" /\ command = "taxon"
    /\ query.subject = <<first, T_family>> /\ query.ancestor = <<>>
    /\ Range(results) = {2, 3}

Survivors ==
    LET Fits(id) ==
            /\ \A i \in 1..Len(query.subject) :
                   query.subject[i].quoted =>
                       LowerStr(query.subject[i].text) \in FoldedNames[id]
            /\ FiltersInForce # {} => TaxonRank(id) \in FiltersInForce
            /\ query.ancestor # <<>> =>
                   ancestor.kind = "taxon" /\ ancestor.id \in Range(AncestorChain(id))
    IN SelectSeq(results, Fits)

\* Candidate a is preferred to candidate b by the rules of step 6.
Outranks(a, b) ==
    LET text == LowerStr(SearchText(query.subject))
        Starts(id) == \E n \in FoldedNames[id] : StartsWith(n, text)
    IN \/ Starts(a) /\ ~Starts(b)
       \/ (Starts(a) <=> Starts(b)) /\ Len(TaxonName(a)) < Len(TaxonName(b))

\* C7: the outcome is fixed by the query and the collaborator's answers: it
\* is one taxon or NotFound, never Ambiguous; when neither an identifier nor
\* a code decides, it is NotFound exactly when no candidate survives, and
\* otherwise the survivor no other outranks that comes first in the
\* collaborator's relevance order.
C7_SingleDeterministicPick ==
    Resolved =>
        /\ outcome.kind \in {"taxon", "NotFound"}
        /\ outcome.kind = "taxon" => outcome.id \in TaxonIds
        /\ (KnownIds(query.subject) = {} /\ AouMatch(query.subject, results) = 0) =>
               IF Survivors = <<>> THEN outcome = NotFound
               ELSE /\ outcome.kind = "taxon"
                    /\ \E k \in 1..Len(Survivors) :
                          /\ Survivors[k] = outcome.id
                          /\ \A j \in 1..Len(Survivors) : ~Outranks(Survivors[j], outcome.id)
                          /\ \A j \in 1..(k - 1) : Outranks(outcome.id, Survivors[j])

C7_Witness ==
    /\ pc = "done"
    /\ query.subject = <<T_bear, T_bear>> /\ query.ancestor = <<>>
    /\ results = <<5, 2>>
    /\ outcome = Found(5)

(***************************************************************************)
(* Properties of the last-mention scan and the `last` command group (Spec).*)
(***************************************************************************)
Ranks == {"kingdom", "phylum", "family", "genus", "species"}

\* The positions of a chain whose entry has the rank.
Holders(chain, rank) == {i \in DOMAIN chain : TaxonRank(chain[i]) = rank}

Highest(S) == CHOOSE i \in S : \A j \in S : j <= i

Lowest(S) == CHOOSE i \in S : \A j \in S : i <= j

RankCommands == {"last obs <rank>", "last taxon <rank>"}

ObsCommands == {"last obs", "last obs img", "last obs taxon", "last obs map",
                "last obs <rank>"}

\* The positions of the scanned window whose message carries the kind of
\* link the served command looks for.
Matching ==
    LET kind == IF lastCommand.name \in ObsCommands THEN "obs" ELSE "taxon" IN
    {i \in 1..Len(history) : i <= HistoryLimit /\ history[i].kind = kind}

\* A command was served and read the history.
Scanned == lastCommand.name # "" /\ lastCommand.rank # "<rank>"

C9_NewestMatchWins ==
    Scanned =>
      IF Matching = {} THEN mention = None
      ELSE /\ mention.found
           /\ mention.source = Lowest(Matching)
           /\ mention.id = history[Lowest(Matching)].id
           /\ lastReply.kind = "obs" => lastReply.id = history[Lowest(Matching)].id

\* Two observation links in the window, the newer one shown.
C9_Witness ==
    /\ lastCommand.name = "last obs"
    /\ Len(history) >= 2
    /\ history[1] = ObsLink(1) /\ history[2] = ObsLink(2)
    /\ mention.source = 1
    /\ lastReply = Shown("obs", 1)

\* C10. When no message of the scanned window carries a link of the kind a
\* `last` subcommand looks for, the scan returns nothing and the subcommand
\* replies "Nothing found" and raises no error.
C10_NoLinkIsNothingFound ==
    (Scanned /\ Matching = {}) => (mention = None /\ lastReply = NothingFound)

\* The newest message of the scanned window with a link of the kind the
\* served command looks for.
Newest == history[Lowest(Matching)]

\* The link of a message leads to a record that exists.
Alive(m) == IF m.kind = "obs" THEN m.id \in ObsIds ELSE m.id \in TaxonIds

\* C11. When the newest link of the window leads to a record that is gone,
\* the scan stops there all the same: the mention is that message's link,
\* marked as having no record, whatever older links follow it, and the
\* command renders it as "Nothing found" instead of showing an older one.
C11_DeadReferenceNotSkipped ==
    (Scanned /\ Matching # {} /\ ~Alive(Newest)) =>
      /\ mention = [found |-> TRUE, source |-> Lowest(Matching), id |-> Newest.id,
                    live |-> FALSE, taxon |-> 0]
      /\ lastReply = NothingFound

\* A dead observation link posted after a live one.
C11_Witness ==
    /\ lastCommand.name = "last obs"
    /\ Len(history) >= 2
    /\ history[1] = ObsLink(DeletedObsId) /\ history[2] = ObsLink(1)
    /\ mention.found /\ mention.source = 1 /\ ~mention.live
    /\ lastReply = NothingFound

\* What the scan of a history gives a command of the name: the link of the
\* newest message of the window with a link of its kind and, when the
\* record exists, the taxon it carries.
ScanOf(h, name) ==
    LET kind == IF name \in ObsCommands THEN "obs" ELSE "taxon"
        hits == {i \in 1..Len(h) : i <= HistoryLimit /\ h[i].kind = kind}
        m == h[Lowest(hits)]
    IN IF hits = {} THEN None
       ELSE [found |-> TRUE, source |-> Lowest(hits), id |-> m.id, live |-> Alive(m),
             taxon |-> IF ~Alive(m) THEN 0
                       ELSE IF kind = "obs" THEN ObsTaxon(m.id) ELSE m.id]

\* C12. Every command that reads the history works on the scan of the
\* channel's history as it is at that call, whatever an earlier command
\* found and whatever was posted, edited or deleted since; and a command
\* repeated on an unchanged history finds the same mention again.
C12_DependsOnlyOnHistory ==
    [][/\ (lastCommand'.name # "" /\ lastCommand'.rank # "<rank>") =>
            mention' = ScanOf(history', lastCommand'.name)
       /\ (Scanned /\ lastCommand' = lastCommand /\ history' = history) =>
            mention' = mention]_vars

\* A taxon command served on a history whose newest message was posted
\* over older links of both kinds, after an observation was looked for.
C12_Witness ==
    /\ lastCommand.name = "last taxon"
    /\ history = <<TaxonLink(4), ObsLink(1), TaxonLink(3)>>
    /\ mention = [found |-> TRUE, source |-> 1, id |-> 4, live |-> TRUE, taxon |-> 4]
    /\ lastReply = Shown("taxon", 4)

(***************************************************************************)
(* Properties of the taxa-list commands (SpecMany).                        *)
(***************************************************************************)
\* The command has replied.
Replied == manyReply.kind # "none"

\* The segments that are a single identifier, and the taxon each names.
Named(seg) == IF seg = <<Word(<<"4">>)>> THEN 4 ELSE IF seg = <<Word(<<"5">>)>> THEN 5 ELSE 0

\* C13. The segments of a list are resolved in order and the first error
\* ends the resolution with no partial result: related and map then send
\* one apology carrying that error and no embed; when every segment
\* resolves, the embed is built from one taxon per segment, in the order of
\* the list.
C13_FirstErrorIsApologizedFor ==
    Replied =>
      IF failure # ""
      THEN taxa = <<>> /\ manyReply = ManyReply("apology", <<>>, failure)
      ELSE /\ manyReply.kind = manyCommand
           /\ Len(taxa) = Len(Segments(taxa_list))
           /\ Len(manyReply.taxa) = Len(taxa)
           /\ \A i \in 1..Len(taxa) :
                Named(Segments(taxa_list)[i]) # 0 => taxa[i] = Named(Segments(taxa_list)[i])

\* The number of leading positions on which two sequences agree.
Agreeing(a, b) ==
    Cardinality({k \in 1..Len(a) : k <= Len(b) /\ \A j \in 1..k : a[j] = b[j]})

Occurrences(s, x) == Cardinality({i \in 1..Len(s) : s[i] = x})

\* C14. The relatedness of two taxa is the length of the common prefix of
\* their root-to-leaf ancestor chains, and the related embed lists the
\* resolved taxa, each once per segment, in order of descending relatedness
\* to the first taxon of the list.
C14_DescendingRelatedness ==
    /\ \A x, y \in TaxonIds :
         Relatedness(x, y) = Agreeing(AncestorChain(x), AncestorChain(y))
    /\ manyReply.kind = "related" =>
         LET shown == manyReply.taxa IN
         /\ \A id \in TaxonIds : Occurrences(shown, id) = Occurrences(taxa, id)
         /\ \A i, j \in 1..Len(shown) :
              i < j => Agreeing(AncestorChain(taxa[1]), AncestorChain(shown[i]))
                         >= Agreeing(AncestorChain(taxa[1]), AncestorChain(shown[j]))

\* Ursus arctos, Plantae and Ursus, listed in that order, are shown as
\* Ursus arctos, Ursus, Plantae.
C14_Witness ==
    /\ manyCommand = "related"
    /\ taxa = <<4, 5, 3>>
    /\ manyReply = ManyReply("related", <<4, 3, 5>>, "")

(***************************************************************************)
(* Properties of the by and from clauses (SpecFiltered).                   *)
(***************************************************************************)
\* The first identifier of the subject that the collaborator knows.
FirstKnownId ==
    LET at == {i \in 1..Len(query.subject) :
                 /\ IsNumeric(query.subject[i].text)
                 /\ NumVal(query.subject[i].text) \in TaxonIds}
    IN NumVal(query.subject[Lowest(at)].text)

\* What the subject, the rank filters, the ancestor clause and the
\* collaborator's answers make of a query, its user and place clauses left
\* out of account.
Unfiltered ==
    IF KnownIds(query.subject) # {} THEN Found(FirstKnownId)
    ELSE IF AouMatch(query.subject, results) # 0 THEN Found(AouMatch(query.subject, results))
    ELSE IF Survivors = <<>> THEN NotFound
    ELSE LET best == CHOOSE k \in 1..Len(Survivors) :
                       /\ \A j \in 1..Len(Survivors) : ~Outranks(Survivors[j], Survivors[k])
                       /\ \A j \in 1..(k - 1) : Outranks(Survivors[k], Survivors[j])
         IN Found(Survivors[best])

AddCommands == {"project add", "place add"}

\* The map a command works on, out of a pair of maps.
MapOf(name, maps) ==
    IF name \in {"project add", "project remove"} THEN maps.projects ELSE maps.places

Now == [projects |-> projects, places |-> places]

\* The last command ran in a guild and was an add.
Added == abbrevCommand.name \in AddCommands /\ abbrevCommand.guild

\* C16: a reserved abbreviation cannot be added: whatever project and place
\* add and remove commands have run, no key of either stored map is reserved,
\* and an add of a reserved abbreviation leaves its map as it found it.
C16_ReservedNeverStored ==
    /\ \A key \in RESERVED_PLACES : projects[key] = 0 /\ places[key] = 0
    /\ (Added /\ LowerStr(abbrevCommand.abbrev) \in RESERVED_PLACES)
           => Now = abbrevBefore

\* C17: an add of an abbreviation that is already defined, in whatever case
\* it is typed, reports the existing definition and leaves the map as it
\* was; no command takes a defined abbreviation from one number to another.
C17_DefinedIsNotRedefined ==
    /\ (Added /\ MapOf(abbrevCommand.name, abbrevBefore)[LowerStr(abbrevCommand.abbrev)] # 0)
           => /\ Now = abbrevBefore
              /\ abbrevSent # <<>>
              /\ abbrevSent[Len(abbrevSent)] =
                     Msg("already defined as", LowerStr(abbrevCommand.abbrev),
                         MapOf(abbrevCommand.name, abbrevBefore)[LowerStr(abbrevCommand.abbrev)])
    /\ \A key \in Abbrevs :
           /\ (abbrevBefore.projects[key] # 0 /\ projects[key] # 0)
                  => projects[key] = abbrevBefore.projects[key]
           /\ (abbrevBefore.places[key] # 0 /\ places[key] # 0)
                  => places[key] = abbrevBefore.places[key]

\* An abbreviation defined in lower case was added again in upper case with
\* another number, and was refused.
C17_Witness ==
    /\ abbrevCommand = [name |-> "place add", guild |-> TRUE,
                        abbrev |-> <<"A", "B">>, number |-> 2]
    /\ abbrevBefore.places[<<"a", "b">>] = 1
    /\ places[<<"a", "b">>] = 1
    /\ abbrevSent = <<Msg("already defined as", <<"a", "b">>, 1)>>

(***************************************************************************)
(* Properties of user add and user remove (SpecUser).                      *)
(***************************************************************************)
Refusal == <<"New iNat user id for user! Registration under old id must be removed first.">>

\* C18: user add never changes an inat_user_id that is already set; when the
\* id it looked up differs from the stored one it refuses, and inat_user_id
\* and known_in stay as they were.
C18_AddKeepsUserId ==
    (userCommand.name = "user add" /\ userBefore.inat_user_id # 0)
        => /\ userConfig.inat_user_id = userBefore.inat_user_id
           /\ (userCommand.looked # 0 /\ userCommand.looked # userBefore.inat_user_id)
                  => /\ userConfig = userBefore
                     /\ ~KnownHere(userBefore, userCommand.guild) => userReply = Refusal

\* A user registered under one id in one guild was added under another id in
\* another guild, and was refused.
C18_Witness ==
    /\ userCommand.name = "user add"
    /\ userBefore.inat_user_id = 1 /\ userCommand.looked = 2
    /\ userCommand.guild \notin Members(userBefore.known_in)
    /\ userReply = Refusal
    /\ userConfig = userBefore

\* C19: user remove in a guild of known_in: when it is the only one,
\* inat_user_id, known_all and known_in are all cleared; when others remain,
\* only this guild leaves known_in, and the id and known_all are kept.
C19_RemoveFromLastGuildClears ==
    (userCommand.name = "user remove"
     /\ userCommand.guild \in Members(userBefore.known_in))
        => IF Members(userBefore.known_in) = {userCommand.guild}
           THEN userConfig = NoUser
           ELSE /\ userConfig.known_in =
                       SelectSeq(userBefore.known_in, LAMBDA g : g # userCommand.guild)
                /\ userConfig.inat_user_id = userBefore.inat_user_id
                /\ userConfig.known_all = userBefore.known_all

\* A user known everywhere was removed in the only guild that had added them.
C19_Witness ==
    /\ userCommand.name = "user remove"
    /\ userBefore.known_in = <<userCommand.guild>>
    /\ userBefore.known_all /\ userBefore.inat_user_id # 0
    /\ userConfig = NoUser
    /\ userReply = <<"iNat user removed.">>

\* C20: user remove in a guild that is not in known_in changes nothing in
\* the user's config, whether or not the user is known there through
\* known_all.
C20_RemoveElsewhereChangesNothing ==
    (userCommand.name = "user remove"
     /\ userCommand.guild \notin Members(userBefore.known_in))
        => userConfig = userBefore

\* A user known everywhere was removed in a guild that had not added them.
C20_Witness ==
    /\ userCommand.name = "user remove"
    /\ userBefore.inat_user_id # 0 /\ userBefore.known_all
    /\ userCommand.guild \notin Members(userBefore.known_in)
    /\ userConfig = userBefore
    /\ userReply = <<"iNat user was added on another server and can only be removed there.">>

(***************************************************************************)
(* Auto-observation mode: autoobs on a channel, autoobs server on the      *)
(* guild, and autoobs show.                                                *)
(***************************************************************************)
Truthy ==
    {<<"y", "e", "s">>, <<"y">>, <<"t", "r", "u", "e">>, <<"t">>,
     <<"1">>, <<"e", "n", "a", "b", "l", "e">>, <<"o", "n">>}

Falsy ==
    {<<"n", "o">>, <<"n">>, <<"f", "a", "l", "s", "e">>, <<"f">>,
     <<"0">>, <<"d", "i", "s", "a", "b", "l", "e">>,
     <<"o", "f", "f">>}

Inherits ==
    {<<"i">>, <<"i", "n", "h", "e", "r", "i", "t">>,
     <<"i", "n", "h", "e", "r", "i", "t", "s">>,
     <<"i", "n", "h", "e", "r", "i", "t", "e", "d">>}

\* InheritableBoolConverter.convert: True, False, None to inherit, or
\* BadArgument.
InheritableBool(typed) ==
    LET lowered == LowerStr(typed)
    IN  IF lowered \in Truthy THEN "True"
        ELSE IF lowered \in Falsy THEN "False"
        ELSE IF lowered \in Inherits THEN "None"
        ELSE "BadArgument"

\* What moderators type after autoobs.
AutoobsArguments ==
    {<<"o", "n">>, <<"E", "n", "a", "b", "l", "e">>, <<"o", "f", "f">>,
     <<"i", "n", "h", "e", "r", "i", "t">>, <<"i">>, <<"b", "e">>}

OnOff(state) == IF state = "True" THEN "on" ELSE "off"

ServerMessage(server_state) ==
    [about |-> "Server", inherited |-> FALSE, value |-> OnOff(server_state)]

\* "Channel observation auto-preview is ...": the server's mode when the
\* channel inherits, its own otherwise.
ChannelMessage(channel_state, server_state) ==
    IF channel_state = "None"
    THEN [about |-> "Channel", inherited |-> TRUE, value |-> OnOff(server_state)]
    ELSE [about |-> "Channel", inherited |-> FALSE, value |-> OnOff(channel_state)]

BadArgumentMessage == [about |-> "BadArgument", inherited |-> FALSE, value |-> ""]

\* A variant that stores the server's mode of the moment for inherit.
StoredSnapshot(state, server_state) ==
    IF state = "None" THEN server_state ELSE state

\* config.autoobs.set(state): what autoobs stores for the channel.
Stored(state, server_state) == state

AutoobsServe(name, channel, state, msgs) ==
    /\ autoobsCommand' = [name |-> name, channel |-> channel, state |-> state]
    /\ autoobsSent' = msgs
    /\ UNCHANGED <<firstVars, loadVars, memberVars, resolveVars, raceVars>>

\* autoobs <state> in a channel.  An argument the converter refuses never
\* reaches the handler; a bot author or a direct message returns at once.
autoobs ==
    \E allowed \in BOOLEAN, channel \in Channels, typed \in AutoobsArguments :
        LET state == InheritableBool(typed)
        IN  IF state = "BadArgument"
            THEN /\ AutoobsServe("autoobs", channel, state, <<BadArgumentMessage>>)
                 /\ UNCHANGED <<guildAutoobs, channelAutoobs, channelAsked>>
            ELSE IF ~allowed
            THEN /\ AutoobsServe("autoobs", channel, state, <<>>)
                 /\ UNCHANGED <<guildAutoobs, channelAutoobs, channelAsked>>
            ELSE /\ AutoobsServe("autoobs", channel, state,
                                 <<ChannelMessage(state, guildAutoobs)>>)
                 /\ channelAutoobs' =
                        [channelAutoobs EXCEPT ![channel] = Stored(state, guildAutoobs)]
                 /\ channelAsked' = [channelAsked EXCEPT ![channel] = state]
                 /\ UNCHANGED guildAutoobs

\* autoobs server <state>.
server ==
    \E allowed \in BOOLEAN, channel \in Channels, state \in {"True", "False"} :
        IF ~allowed
        THEN /\ AutoobsServe("server", channel, state, <<>>)
             /\ UNCHANGED <<guildAutoobs, channelAutoobs, channelAsked>>
        ELSE /\ AutoobsServe("server", channel, state, <<ServerMessage(state)>>)
             /\ guildAutoobs' = state
             /\ UNCHANGED <<channelAutoobs, channelAsked>>

\* autoobs show in a channel.
show ==
    \E allowed \in BOOLEAN, channel \in Channels :
        /\ AutoobsServe("show", channel, "",
                        IF allowed
                        THEN <<ServerMessage(guildAutoobs),
                               ChannelMessage(channelAutoobs[channel], guildAutoobs)>>
                        ELSE <<>>)
        /\ UNCHANGED <<guildAutoobs, channelAutoobs, channelAsked>>

InitAutoobs ==
    /\ AutoobsIdle /\ LoadIdle /\ MemberIdle /\ ResolveIdle /\ RaceIdle
    /\ ConvertIdle /\ TaxonIdle /\ LastIdle /\ ManyIdle /\ AbbrevIdle /\ UserIdle

NextAutoobs == autoobs \/ server \/ show

SpecAutoobs == InitAutoobs /\ [][NextAutoobs]_vars

(***************************************************************************)
(* Properties of the autoobs commands (SpecAutoobs).                       *)
(***************************************************************************)
\* C21: once a channel is set to inherit, the mode reported for it is the
\* server's current mode, whatever autoobs server commands have run since,
\* until the channel is set to on or off; a channel set to on or off is
\* reported as set, whatever the server's mode.
C21_InheritFollowsServer ==
    LET c == autoobsCommand.channel
        due == ChannelMessage(channelAsked[c], guildAutoobs)
    IN  /\ (autoobsCommand.name = "show" /\ autoobsSent # <<>>)
               => /\ autoobsSent = <<ServerMessage(guildAutoobs), due>>
                  /\ due.inherited <=> channelAsked[c] = "None"
                  /\ due.inherited => due.value = OnOff(guildAutoobs)
                  /\ ~due.inherited => due.value = OnOff(channelAsked[c])
        /\ \A d \in Channels : channelAutoobs[d] = channelAsked[d]

\* A channel set to inherit is shown with the server's mode, on, while
\* another channel of the guild is set to off.
C21_Witness ==
    /\ autoobsCommand.name = "show"
    /\ channelAsked[autoobsCommand.channel] = "None"
    /\ guildAutoobs = "True"
    /\ autoobsSent = <<ServerMessage("True"),
                       [about |-> "Channel", inherited |-> TRUE, value |-> "on"]>>
    /\ \E d \in Channels : channelAsked[d] = "False"

(***************************************************************************)
(* Loading the cog: initialize and the schema migration, with the user     *)
(* commands served once the cog is ready.                                  *)
(***************************************************************************)
SCHEMA_VERSION == 2

\* The guild the developer's first registrations were meant for.
INAT_GUILD_ID == 1

\* The configs a user can have been left with by schema 1: never added, or
\* added with or without a guild on record.
Schema1Users ==
    {NoUser,
     [inat_user_id |-> 1, known_in |-> <<>>, known_all |-> FALSE],
     [inat_user_id |-> 1, known_in |-> <<2>>, known_all |-> FALSE]}

\* A variant that migrates whatever schema version it finds.
MigrateUserAlways(from_version, to_version, dev, config) ==
    IF dev /\ config.inat_user_id # 0
    THEN [config EXCEPT !.known_in = <<INAT_GUILD_ID>>]
    ELSE config

\* What _migrate_config does to one user's config.
MigrateUser(from_version, to_version, dev, config) ==
    IF from_version = to_version THEN config
    ELSE IF from_version < 2 /\ 2 <= to_version /\ dev /\ config.inat_user_id # 0
    THEN [config EXCEPT !.known_in = <<INAT_GUILD_ID>>]
    ELSE config

InitLoad ==
    /\ schema_version = 1 /\ developer \in BOOLEAN
    /\ loadPc = "unloaded" /\ loadFound = 0
    /\ userConfig \in Schema1Users /\ userCommand = NoUserCommand
    /\ userBefore = userConfig /\ userReply = <<>>
    /\ ConvertIdle /\ TaxonIdle /\ LastIdle /\ ManyIdle /\ AbbrevIdle /\ AutoobsIdle
    /\ MemberIdle /\ ResolveIdle /\ RaceIdle

\* initialize, up to the point where every user has been migrated: the
\* version is read and, when it is not the current one, the users are reset.
initialize ==
    /\ loadPc = "unloaded"
    /\ loadFound' = schema_version
    /\ userCommand' = [NoUserCommand EXCEPT !.name = "initialize"]
    /\ userBefore' = userConfig
    /\ userReply' = <<>>
    /\ userConfig' = MigrateUser(schema_version, SCHEMA_VERSION, developer, userConfig)
    /\ loadPc' = IF schema_version = SCHEMA_VERSION THEN "ready" ELSE "migrating"
    /\ UNCHANGED <<schema_version, developer, firstVarsButUser, autoobsVars, memberVars,
                   resolveVars, raceVars>>

\* The end of _migrate_config and of initialize: the new version is stored
\* and the cog is ready for commands.
finish_migration ==
    /\ loadPc = "migrating"
    /\ schema_version' = IF loadFound < 2 /\ 2 <= SCHEMA_VERSION THEN 2 ELSE schema_version
    /\ loadPc' = "ready"
    /\ UNCHANGED <<developer, loadFound, firstVars, autoobsVars, memberVars, resolveVars, raceVars>>

\* cog_unload: the initialization task is cancelled wherever it stands.
cog_unload ==
    /\ loadPc # "unloaded"
    /\ loadPc' = "unloaded"
    /\ UNCHANGED <<schema_version, developer, loadFound, firstVars, autoobsVars,
                   memberVars, resolveVars, raceVars>>

\* cog_before_invoke: commands wait until the cog is ready.
ready_user_add == loadPc = "ready" /\ user_add

ready_user_remove == loadPc = "ready" /\ user_remove

ready_user_set_known == loadPc = "ready" /\ user_set_known

NextLoad ==
    \/ initialize \/ finish_migration \/ cog_unload
    \/ ready_user_add \/ ready_user_remove \/ ready_user_set_known

SpecLoad == InitLoad /\ [][NextLoad]_vars

(***************************************************************************)
(* Properties of the schema migration (SpecLoad).                          *)
(***************************************************************************)
\* C22: only an initialization that finds schema version 1 on a developer
\* bot resets known_in to the iNat guild, and it leaves the version at 2; an
\* initialization that finds version 2 changes no config, so what was
\* registered after the migration survives every later load; on any other
\* bot no user config is changed.
C22_MigrationRunsOnce ==
    userCommand.name = "initialize"
        => /\ userConfig # userBefore
                  => /\ loadFound = 1 /\ developer
                     /\ userBefore.inat_user_id # 0
                     /\ userConfig = [userBefore EXCEPT !.known_in = <<INAT_GUILD_ID>>]
           /\ (loadFound = 1 /\ developer /\ userBefore.inat_user_id # 0)
                  => userConfig.known_in = <<INAT_GUILD_ID>>
           /\ loadFound = 2 => (userConfig = userBefore /\ schema_version = 2)
           /\ ~developer => userConfig = userBefore
           /\ loadPc = "ready" => schema_version = 2

\* On a developer bot a later load found version 2 and left alone a user
\* added in a second guild after the migration.
C22_Witness ==
    /\ userCommand.name = "initialize" /\ loadPc = "ready"
    /\ developer /\ loadFound = 2
    /\ userConfig.known_in = <<INAT_GUILD_ID, 2>>
    /\ userConfig = userBefore

(***************************************************************************)
(* A further property of the `last` command group (Spec).                  *)
(***************************************************************************)
\* C24: when the last observation mentioned has no taxon, `last obs <rank>`
\* answers "The last observation has no taxon." and no error leaves the
\* handler.
C24_NoTaxonIsApologizedFor ==
    (/\ lastCommand.name = "last obs <rank>" /\ lastCommand.rank # "<rank>"
     /\ mention.found /\ mention.live /\ mention.taxon = 0)
        => lastReply = Sorry(<<"The last observation has no taxon.">>)

(***************************************************************************)
(* converters.py: ContextMemberConverter.convert                           *)
(*                                                                         *)
(* The people the bot knows of are numbered; each has a name, perhaps a    *)
(* nick, and is or is not a bot and a member of the guild.  No two share a *)
(* name, so the dict the converter builds, keyed by name, has one entry    *)
(* per author.                                                             *)
(***************************************************************************)
People == 1..5

MemberName(p) ==
    CASE p = 1 -> <<"b", "e", "a">>
      [] p = 2 -> <<"B", "e", "a", "r">>
      [] p = 3 -> <<"u", "r", "s", "a">>
      [] p = 4 -> <<"b", "e", "e", "p">>
      [] OTHER -> <<"b", "e", "r", "t">>

\* The nick of those who have one; <<>> stands for none.
MemberNick(p) == IF p = 3 THEN <<"B", "e", "e">> ELSE <<>>

Bots == {4}

\* Person 5 has left the guild: ctx.guild.get_member finds the others.
GuildMembers == {1, 2, 3, 4}

\* A cached message: its author, and whether it was sent in this guild.
CachedMessages ==
    {[author |-> p, here |-> TRUE] : p \in People} \cup {[author |-> 2, here |-> FALSE]}

MaxCached == 3

MemberArgs ==
    {<<"m", "e">>, <<"M", "E">>, <<"b", "e">>, <<"B", "E">>, <<"B", "e", "a", "r">>,
     <<"b", "e", "e">>, <<"x">>}

Member(p) == [kind |-> "member", id |-> p]

\* MemberConverter().convert: a member of the guild whose name or nick is
\* the argument exactly; 0 when it raises BadArgument.
ExactMember(arg) ==
    LET exact == {p \in GuildMembers : MemberName(p) = arg \/ MemberNick(p) = arg}
    IN  IF exact = {} THEN 0 ELSE CHOOSE p \in exact : \A q \in exact : p <= q

\* The keys of the cached_members dict in the order a dict keeps them: each
\* author at the place of their first message in the cache.
RECURSIVE CachedMembers(_, _, _)
CachedMembers(cache, i, acc) ==
    IF i > Len(cache) THEN acc
    ELSE LET msg == cache[i]
             kept == /\ msg.author \notin Bots /\ msg.here
                     /\ msg.author \in GuildMembers
                     /\ msg.author \notin Range(acc)
         IN  CachedMembers(cache, i + 1, IF kept THEN Append(acc, msg.author) ELSE acc)

\* re.match(re.escape(arg), text, re.I): text starts with arg, whatever the
\* case of either.
PrefixMatch(arg, text) == StartsWith(LowerStr(text), LowerStr(arg))

Matches(arg, cache) ==
    SelectSeq(CachedMembers(cache, 1, <<>>),
              LAMBDA p : \/ PrefixMatch(arg, MemberName(p))
                         \/ (MemberNick(p) # <<>> /\ PrefixMatch(arg, MemberNick(p))))

\* ContextMemberConverter.convert.
ConvertMember(ctx, arg, cache) ==
    IF ~ctx.guild THEN [kind |-> "None", id |-> 0]
    ELSE IF LowerStr(arg) = <<"m", "e">> THEN Member(ctx.author)
    ELSE IF ExactMember(arg) # 0 THEN Member(ExactMember(arg))
    ELSE LET matches == Matches(arg, cache)
         IN  IF matches # <<>> THEN Member(matches[1])
             ELSE [kind |-> "BadArgument", id |-> 0]

InitMember ==
    /\ memberArg \in MemberArgs
    /\ memberCtx \in [guild : BOOLEAN, author : {1, 2}]
    /\ cached_messages \in SeqsUpTo(CachedMessages, MaxCached)
    /\ memberResult = NoMember
    /\ ConvertIdle /\ TaxonIdle /\ LastIdle /\ ManyIdle /\ AbbrevIdle /\ UserIdle
    /\ AutoobsIdle /\ LoadIdle /\ ResolveIdle /\ RaceIdle

convert_member ==
    /\ memberResult = NoMember
    /\ memberResult' = ConvertMember(memberCtx, memberArg, cached_messages)
    /\ UNCHANGED <<memberArg, memberCtx, cached_messages, firstVars, autoobsVars,
                   loadVars, resolveVars, raceVars>>

NextMember == convert_member

SpecMember == InitMember /\ [][NextMember]_vars

(***************************************************************************)
(* Properties of ContextMemberConverter.convert (SpecMember).              *)
(***************************************************************************)
\* The members the partial match may choose from: those, not bots, with a
\* cached message in this guild whose name or nick starts with the argument.
Candidates ==
    {p \in GuildMembers \ Bots :
        /\ \E i \in 1..Len(cached_messages) :
               cached_messages[i].author = p /\ cached_messages[i].here
        /\ \/ PrefixMatch(memberArg, MemberName(p))
           \/ (MemberNick(p) # <<>> /\ PrefixMatch(memberArg, MemberNick(p)))}

\* The place in the cache of the newest message a member sent in this guild.
LastActive(p) ==
    CHOOSE i \in 1..Len(cached_messages) :
        /\ cached_messages[i].author = p /\ cached_messages[i].here
        /\ \A j \in (i + 1)..Len(cached_messages) :
               ~(cached_messages[j].author = p /\ cached_messages[j].here)

\* C23: in a guild, convert gives the author for `me` in any case; else the
\* exact member match; else, of the members in the cached messages whose
\* name or nick starts with the argument, the one most recently active;
\* else BadArgument.
C23_MostRecentlyActiveMatch ==
    (memberResult # NoMember /\ memberCtx.guild)
        => memberResult =
             IF LowerStr(memberArg) = <<"m", "e">> THEN Member(memberCtx.author)
             ELSE IF ExactMember(memberArg) # 0 THEN Member(ExactMember(memberArg))
             ELSE IF Candidates # {}
                  THEN Member(CHOOSE p \in Candidates :
                                  \A q \in Candidates : LastActive(q) <= LastActive(p))
             ELSE [kind |-> "BadArgument", id |-> 0]

(***************************************************************************)
(* One resolution and its lookups.  The resolver runs from one answer of   *)
(* the collaborator to its next request without suspending; a lookup is in *)
(* flight from the request to the answer.  The caller may abandon the      *)
(* resolution while a lookup is in flight.                                 *)
(***************************************************************************)
LookupOrder(k) == CASE k = "id" -> 1 [] k = "name" -> 2 [] OTHER -> 3

\* The lookups of a set, in the order they are issued.
InOrder(S) ==
    (IF "id" \in S THEN <<"id">> ELSE <<>>)
        \o (IF "name" \in S THEN <<"name">> ELSE <<>>)
        \o (IF "ancestor" \in S THEN <<"ancestor">> ELSE <<>>)

HasIdTerm(terms) == \E i \in 1..Len(terms) : IsNumeric(terms[i].text)

\* A variant that sends the identifier check and the name search together.
FirstLookupsTogether(q) ==
    (IF HasIdTerm(q.subject) THEN {"id"} ELSE {})
        \cup (IF SearchText(q.subject) # <<>> THEN {"name"} ELSE {})

\* What a resolution asks first: the identifier check when the subject has
\* a numeric term, else the name search.
FirstLookups(q) ==
    IF HasIdTerm(q.subject) THEN {"id"}
    ELSE IF SearchText(q.subject) # <<>> THEN {"name"}
    ELSE {}

\* The answer to lookup k has come (none when k is ""), and the lookups of
\* S are issued next.
Returned(k, S) ==
    /\ inflight' = (inflight \ {k}) \cup (S \ Range(issued))
    /\ issued' = issued \o InOrder(S \ Range(issued))

notResolve ==
    <<convertVars, lastVars, manyVars, abbrevVars, userVars, autoobsVars, loadVars,
      memberVars, raceVars>>

InitResolve ==
    /\ command = "taxon" /\ query \in Queries /\ pc = "start"
    /\ results = <<>> /\ ancestor = NoOutcome /\ outcome = NoOutcome /\ reply = NoReply
    /\ ResolveIdle /\ RaceIdle
    /\ ConvertIdle /\ LastIdle /\ ManyIdle /\ AbbrevIdle /\ UserIdle
    /\ AutoobsIdle /\ LoadIdle /\ MemberIdle

StartResolution ==
    /\ pc = "start"
    /\ IF ~CheckTaxonQuery(query)
       THEN /\ outcome' = NoOutcome /\ reply' = Apology /\ pc' = "done"
            /\ Returned("", {})
       ELSE LET first == FirstLookups(query) IN
            IF first = {} THEN Finish(NotFound) /\ Returned("", {})
            ELSE /\ pc' = IF "id" \in first THEN "id" ELSE "search"
                 /\ Returned("", first)
                 /\ UNCHANGED <<outcome, reply>>
    /\ UNCHANGED <<command, query, results, ancestor, notResolve>>

IdCheckReturns ==
    /\ pc = "id" /\ "id" \in inflight
    /\ IF IdMatch(query.subject) # 0
       THEN Finish(Found(IdMatch(query.subject))) /\ Returned("id", {})
       ELSE IF SearchText(query.subject) = <<>>
       THEN Finish(NotFound) /\ Returned("id", {})
       ELSE /\ pc' = "search" /\ Returned("id", {"name"})
            /\ UNCHANGED <<outcome, reply>>
    /\ UNCHANGED <<command, query, results, ancestor, notResolve>>

NameSearchReturns ==
    /\ pc = "search" /\ "name" \in inflight
    /\ \E r \in Responses :
         LET aou == AouMatch(query.subject, r)
             short == Shortlist(query.subject, query.ranks, r)
         IN /\ results' = r
            /\ IF aou # 0 THEN Finish(Found(aou)) /\ Returned("name", {})
               ELSE IF short = <<>> THEN Finish(NotFound) /\ Returned("name", {})
               ELSE IF query.ancestor = <<>>
               THEN Finish(Pick(query.subject, short)) /\ Returned("name", {})
               ELSE /\ pc' = "ancestor" /\ Returned("name", {"ancestor"})
                    /\ UNCHANGED <<outcome, reply>>
    /\ UNCHANGED <<command, query, ancestor, notResolve>>

AncestorReturns ==
    /\ pc = "ancestor" /\ "ancestor" \in inflight
    /\ \E r \in AncestorResponses :
         /\ (IdMatch(query.ancestor) # 0 \/ SearchText(query.ancestor) = <<>>) => r = <<>>
         /\ LET anc == ResolveSimple(query.ancestor, {}, r) IN
            /\ ancestor' = anc
            /\ Finish(PickWithin(anc, query.subject,
                                 Shortlist(query.subject, query.ranks, results)))
    /\ Returned("ancestor", {})
    /\ UNCHANGED <<command, query, results, notResolve>>

\* The caller abandons the resolution: its pending lookups are dropped with
\* everything it held.
Abandon ==
    /\ pc \in {"id", "search", "ancestor"}
    /\ pc' = "abandoned"
    /\ inflight' = {}
    /\ results' = <<>> /\ ancestor' = NoOutcome
    /\ UNCHANGED <<command, query, outcome, reply, issued, notResolve>>

NextResolve ==
    StartResolution \/ IdCheckReturns \/ NameSearchReturns \/ AncestorReturns \/ Abandon

SpecResolve == InitResolve /\ [][NextResolve]_vars

RaceAbbrevs == {<<"a", "b">>, <<"A", "B">>, <<"b", "e">>}

RaceKeys == {LowerStr(a) : a \in RaceAbbrevs}

AbbrevCommands == {"project add", "project remove", "place add", "place remove"}

OnProjects(name) == name \in {"project add", "project remove"}

InitRace ==
    /\ projects = [k \in RaceKeys |-> 0] /\ places = [k \in RaceKeys |-> 0]
    /\ abbrevCommand = NoAbbrevCommand
    /\ abbrevBefore = [projects |-> NoAbbrevs, places |-> NoAbbrevs]
    /\ abbrevSent = <<>>
    /\ RaceIdle
    /\ ConvertIdle /\ TaxonIdle /\ LastIdle /\ ManyIdle /\ UserIdle
    /\ AutoobsIdle /\ LoadIdle /\ MemberIdle /\ ResolveIdle

notRace ==
    <<convertVars, taxonVars, lastVars, manyVars, userVars, autoobsVars, loadVars,
      memberVars, resolveVars, abbrevCommand, abbrevBefore, abbrevSent>>

\* A command is invoked and its handler runs up to the end of its read:
\* projects = await config.projects().
ReadMap ==
    \E p \in Handlers, name \in AbbrevCommands, abbrev \in RaceAbbrevs, number \in Numbers :
        /\ handlers[p].pc = "idle"
        /\ handlers' = [handlers EXCEPT ![p] =
               [pc |-> "read", name |-> name, abbrev |-> abbrev, number |-> number,
                local |-> IF OnProjects(name) THEN projects ELSE places]]
        /\ UNCHANGED <<projects, places, reports, notRace>>

\* The handler goes on from its read: it tests its dict, changes it, writes
\* it back with config.projects.set(projects) and reports.
WriteMap ==
    \E p \in Handlers :
        LET h == handlers[p]
            stored == IF OnProjects(h.name) THEN projects ELSE places
            mine == h.local
            r == IF h.name \in AddCommands
                 THEN AbbrevAdd(mine, h.abbrev, h.number)
                 ELSE AbbrevRemove(mine, h.abbrev)
            written == r.map # mine
            after == IF written THEN r.map ELSE stored
        IN  /\ h.pc = "read"
            /\ handlers' = [handlers EXCEPT ![p].pc = "done"]
            /\ projects' = IF OnProjects(h.name) THEN after ELSE projects
            /\ places' = IF OnProjects(h.name) THEN places ELSE after
            /\ reports' = IF written
                          THEN Append(reports,
                                      [add |-> h.name \in AddCommands,
                                       projects |-> OnProjects(h.name),
                                       key |-> AbbrevKey(h.abbrev),
                                       number |-> h.number])
                          ELSE reports
            /\ UNCHANGED notRace

NextRace == ReadMap \/ WriteMap

SpecRace == InitRace /\ [][NextRace]_vars

(***************************************************************************)
(* Properties of the abbreviation commands side by side (SpecRace).        *)
(***************************************************************************)
\* The reports about one abbreviation of one map, by their place in the log.
ReportsOn(onProjects, key) ==
    {i \in 1..Len(reports) : reports[i].projects = onProjects /\ reports[i].key = key}

\* C27: however the add and remove commands of a guild interleave, no
\* update is lost: once every handler has finished, an abbreviation whose
\* last reported success was an add is in the stored map with that add's
\* number, and one whose last reported success was a remove is not in it.
C27_NoLostUpdate ==
    (\A p \in Handlers : handlers[p].pc # "read")
        => \A onProjects \in BOOLEAN, key \in RaceKeys :
               LET on == ReportsOn(onProjects, key)
                   stored == IF onProjects THEN projects ELSE places
               IN  on # {}
                     => LET last == reports[CHOOSE i \in on : \A j \in on : j <= i]
                        IN  stored[key] = IF last.add THEN last.number ELSE 0

====
